---- MODULE Spec2Model ----
(***************************************************************************)
(* A model of the oil-record estimation engine of oil_library:             *)
(*   - init_oil.py: the batch driver (process_oils / add_oil), the         *)
(*     builder (generate_oil and its add_* steps) and the two validation   *)
(*     gates;                                                              *)
(*   - imported_record/estimations.py: the record accessor and the         *)
(*     estimation orchestrator (ImportedRecordWithEstimation).             *)
(*                                                                         *)
(* Numbers.  The Python code computes with floats; the model computes      *)
(* with integers in fixed units:                                           *)
(*   temperatures     centi-kelvin        (288.15 K is 28815)              *)
(*   densities        kg/m^3                                               *)
(*   viscosities      kinematic in 1e-9 m^2/s, dynamic in 1e-6 kg/(m s)    *)
(*   fractions        1/FracUnit                                           *)
(* Python's None is the value None below; every measured quantity of the   *)
(* model is >= 0, so None never collides with one.                         *)
(***************************************************************************)
EXTENDS Integers, Sequences, FiniteSets, TLC

VARIABLES
    \* ---- bounding_temperatures(obj_list, temperature) ----
    obj_list,       \* the series handed to the call
    temperature,    \* the target temperatures handed to the call (a sequence)
    bounds_out,     \* what the call returned (a sequence of pairs), or Pending
    bt_pc,          \* "call" before bounding_temperatures ran, "done" after
    \* ---- the estimation methods of one ImportedRecordWithEstimation ----
    record,         \* self.record, the imported record
    est_args,       \* the method called and its arguments, Pending before the call
    est_out,        \* what the method returned or raised, or Pending
    est_pc,         \* "call" before the method ran, "done" after
    \* ---- the two validation gates of init_oil ----
    imported_rec,   \* the imported record handed to the pre-estimation gate
    oil,            \* the oil handed to reject_oil_if_bad
    gate_out,       \* what the gate returned or raised, or Pending
    gate_pc,        \* "pre_call" / "post_call" before a gate ran, "pre" / "post" after
    \* ---- process_oils(session_class) ----
    record_ids,     \* the ImportedRecord table: the records of the batch, in query order
    pos,            \* index of the record the for loop is at
    in_transaction, \* TRUE between transaction.begin() and commit() / abort()
    txn_log,        \* per record visited: "commit" or "abort", in order
    attached,       \* per record: record.oil (None until add_oil assigns it)
    stages,         \* per record visited: the stages of add_oil that were entered
    escaped,        \* the exception that left process_oils, "" if none
    \* ---- distillation cuts and component mass fractions of one record ----
    cut_record,     \* self.record, the imported record
    cut_env,        \* what the correlations of est give for this record
    cut_oil,        \* the oil the cuts are written to
    cut_out,        \* what add_distillation_cuts returned or raised, or Pending
    mass_fractions, \* what component_mass_fractions returned or raised, or Pending
    duplicate_cuts, \* what oil_has_duplicate_cuts returned, or Pending
    cut_pc,         \* "call", then "cuts", "fractions", "gated"
    \* ---- one OilProps and its deep copy ----
    op_record,      \* the Oil record handed to OilProps(oil_obj)
    op,             \* the OilProps built, or what its construction raised, or Pending
    dcop,           \* what copy.deepcopy(op) returned or raised, or Pending
    op_pc,          \* "call", then "built", "copied"
    \* ---- a cell of the Environment Canada spreadsheet ----
    cell,           \* the cell content handed to get_min_temp and get_max_temp
    temps_out,      \* the pair they returned or what was raised, or Pending
    ec_pc           \* "call" before the two ran, "done" after

vars_bt == <<obj_list, temperature, bounds_out, bt_pc>>

vars_est == <<record, est_args, est_out, est_pc>>

vars_gate == <<imported_rec, oil, gate_out, gate_pc>>

vars_drv == <<record_ids, pos, in_transaction, txn_log, attached, stages, escaped>>

vars_cuts == <<cut_record, cut_env, cut_oil, cut_out, mass_fractions,
               duplicate_cuts, cut_pc>>

vars_op == <<op_record, op, dcop, op_pc>>

vars_ec == <<cell, temps_out, ec_pc>>

vars == <<obj_list, temperature, bounds_out, bt_pc, record, est_args, est_out, est_pc,
          imported_rec, oil, gate_out, gate_pc,
          record_ids, pos, in_transaction, txn_log, attached, stages, escaped,
          cut_record, cut_env, cut_oil, cut_out, mass_fractions, duplicate_cuts,
          cut_pc, op_record, op, dcop, op_pc, cell, temps_out, ec_pc>>

\* Python's None for numeric fields.
None == 0 - 1

\* A result that has not been computed yet.
Pending == <<"pending">>

(***************************************************************************)
(* Bounds of the model.                                                    *)
(***************************************************************************)
\* longest measurement series handed to bounding_temperatures
MaxSeries == 3
\* most target temperatures handed to one call
MaxTargets == 2
\* most kinematic viscosities of a record
MaxKvis == 2
\* most dynamic viscosities of a record
MaxDvis == 1

(***************************************************************************)
(* Generic helpers.                                                        *)
(***************************************************************************)
SeqsUpTo(S, n) == UNION {[1..k -> S] : k \in 0..n}

NonEmptySeqsUpTo(S, n) == UNION {[1..k -> S] : k \in 1..n}

\* sorted(..., key=lambda d: d.ref_temp_k) holds of s
SortedByRefTemp(s) == \A i \in 1..(Len(s) - 1) : s[i].ref_temp_k <= s[i + 1].ref_temp_k

MinOf(S) == CHOOSE x \in S : \A y \in S : x <= y

MaxOf(S) == CHOOSE x \in S : \A y \in S : x >= y

(***************************************************************************)
(* ImportedRecordWithEstimation.bounding_temperatures                      *)
(*                                                                         *)
(* Python indexes from 0, TLA+ sequences from 1: every index below is the  *)
(* Python index plus one.                                                  *)
(***************************************************************************)
\* geq_temps[row of t][j] = (t >= obj_list[j].ref_temp_k)
geq_temps(objs, t, j) == t >= objs[j].ref_temp_k

\* np.all(geq_temps, axis=1)
high_and_oob(objs, t) == \A j \in 1..Len(objs) : geq_temps(objs, t, j)

\* np.all(geq_temps ^ True, axis=1)
low_and_oob(objs, t) == \A j \in 1..Len(objs) : ~geq_temps(objs, t, j)

\* np.argmin(geq_temps, axis=1): the first index holding the least value, i.e.
\* the first False, or the first index when every entry is True.
argmin_geq(objs, t) ==
    IF \E j \in 1..Len(objs) : ~geq_temps(objs, t, j)
    THEN MinOf({j \in 1..Len(objs) : ~geq_temps(objs, t, j)})
    ELSE 1

\* A plausible slip: the step back from the first higher entry is forgotten.
rho_idxs0_no_step_back(objs, t) ==
    IF high_and_oob(objs, t) THEN Len(objs) ELSE argmin_geq(objs, t)

\* rho_idxs0 = argmin; rho_idxs0[rho_idxs0 > 0] -= 1;
\* rho_idxs0[high_and_oob] = len(obj_list) - 1
rho_idxs0(objs, t) ==
    IF high_and_oob(objs, t) THEN Len(objs)
    ELSE IF argmin_geq(objs, t) > 1 THEN argmin_geq(objs, t) - 1
    ELSE argmin_geq(objs, t)

\* rho_idxs1 = (rho_idxs0 + 1).clip(0, len(obj_list) - 1); rho_idxs1[low_and_oob] = 0
rho_idxs1(objs, t) ==
    IF low_and_oob(objs, t) THEN 1
    ELSE IF rho_idxs0(objs, t) + 1 > Len(objs) THEN Len(objs)
    ELSE rho_idxs0(objs, t) + 1

\* The whole call.  For a series of at most one entry the code returns
\* [obj_list * 2]: ONE inner list, whatever the number of targets.
bounding_temperatures(objs, temps) ==
    IF Len(objs) <= 1
    THEN <<objs \o objs>>
    ELSE [i \in 1..Len(temps) |->
            <<objs[rho_idxs0(objs, temps[i])], objs[rho_idxs1(objs, temps[i])]>>]

(***************************************************************************)
(* Units.                                                                  *)
(***************************************************************************)
\* fractions (weathering, cut fractions, resins, asphaltenes): 1.0 is FracUnit
FracUnit == 1000

\* 273.15 + 15, the reference temperature of API gravity, in centi-kelvin
T15C == 28815

(***************************************************************************)
(* What a Python call does: it returns a value or it raises.               *)
(***************************************************************************)
Return(v) == [exc |-> "", val |-> v]

Raise(e) == [exc |-> e, val |-> None]

Raised(r) == r.exc # ""

(***************************************************************************)
(* Sequences as Python lists and dicts.                                    *)
(***************************************************************************)
RECURSIVE FilterSeq(_, _)
\* [x for x in s if s[i] is kept]; keep is the set of kept indexes
FilterSeq(s, keep) ==
    IF s = <<>> THEN <<>>
    ELSE LET n == Len(s)
             front == FilterSeq(SubSeq(s, 1, n - 1), keep)
         IN  IF n \in keep THEN Append(front, s[n]) ELSE front

RECURSIVE SortedByKey(_, _)
\* sorted(s, key=...) for a list of records: key[i] is the key of s[i].
\* Python's sort is stable: among equal keys the earlier element comes first.
SortedByKey(s, key) ==
    IF s = <<>> THEN <<>>
    ELSE LET n == Len(s)
             first == CHOOSE i \in 1..n :
                        \A j \in 1..n : key[i] < key[j] \/ (key[i] = key[j] /\ i <= j)
             rest == (1..n) \ {first}
             shift(j) == IF j < first THEN j ELSE j + 1
         IN  <<s[first]>> \o
             SortedByKey([j \in 1..(n - 1) |-> s[shift(j)]],
                         [j \in 1..(n - 1) |-> key[shift(j)]])

\* (a, b) < (c, d) for Python tuples of numbers
TupleLess(x, y) == x[1] < y[1] \/ (x[1] = y[1] /\ x[2] < y[2])

RECURSIVE SortedTuples(_)
\* sorted(S) for a set of 2-tuples
SortedTuples(S) ==
    IF S = {} THEN <<>>
    ELSE LET m == CHOOSE x \in S : \A y \in S \ {x} : TupleLess(x, y)
         IN  <<m>> \o SortedTuples(S \ {m})

\* the keys of dict(pairs), pairs a list of (key, value)
DictKeys(pairs) == {pairs[i][1] : i \in 1..Len(pairs)}

\* dict(pairs)[k]: the value of the LAST pair with key k
DictGet(pairs, k) ==
    pairs[MaxOf({i \in 1..Len(pairs) : pairs[i][1] = k})][2]

(***************************************************************************)
(* utilities/estimations.py (imported as est): the correlation library.    *)
(* API gravity is kept in tenths of a degree.                              *)
(***************************************************************************)
\* est.density_from_api(api) = (141.5 / (131.5 + api) * 1000, 288.15)
est_density_from_api(api) == <<1415000 \div (1315 + api), T15C>>

\* est.api_from_density(rho) = 141.5 * 1000 / rho - 131.5
est_api_from_density(kg_m_3) == (1415000 \div kg_m_3) - 1315

\* est.vol_expansion_coeff(rho_0, t_0, rho_1, t_1), as the fraction
\* <<numerator, denominator>> per centi-kelvin:
\* 0 when t_0 = t_1, else (rho_0 - rho_1) / (rho_0 * (t_1 - t_0))
est_vol_expansion_coeff(rho_0, t_0, rho_1, t_1) ==
    IF t_0 = t_1 THEN <<0, 1>> ELSE <<rho_0 - rho_1, rho_0 * (t_1 - t_0)>>

\* est.density_at_temp(ref_density, ref_temp_k, temp_k, k_rho_t)
\*   = ref_density / (1 - k_rho_t * (ref_temp_k - temp_k))
\* with k = num/den:  rho = ref - ref * num * dT / (den + num * dT),
\* dT = temp_k - ref_temp_k.  A zero divisor is numpy's inf: no number.
est_density_at_temp(ref_density, ref_temp_k, temp_k, k_rho_t) ==
    LET num == k_rho_t[1]
        den == k_rho_t[2]
        dT == temp_k - ref_temp_k
        divisor == den + num * dT
    IN  IF divisor = 0 THEN None
        ELSE IF divisor > 0
        THEN ref_density - ((ref_density * num * dT) \div divisor)
        ELSE ref_density - ((0 - ref_density * num * dT) \div (0 - divisor))

\* est.dvis_to_kvis(kg_ms, density) = kg_ms / density
\* (1e-6 kg/(m s) over kg/m^3 gives 1e-6 m^2/s: times 1000 for 1e-9 m^2/s)
est_dvis_to_kvis(kg_ms, density) ==
    IF density = None \/ density = 0 THEN None ELSE (kg_ms * 1000) \div density

\* ln(kvis) in thousandths, for the kinematic viscosities of the model
\* (kvis in 1e-9 m^2/s: 10000 is 1e-5 m^2/s, 20000 is 2e-5 m^2/s)
LnMilli(m_2_s) ==
    CASE m_2_s <= 10000 -> 0 - 11513
      [] m_2_s <= 20000 -> 0 - 10820
      [] OTHER -> 0 - 9903

\* est.pour_point_from_kvis(ref_kvis, ref_temp_k)
\*   = c_v1 * ref_temp_k / (c_v1 - ref_temp_k * ln(ref_kvis)), c_v1 = 5000 K
est_pour_point_from_kvis(m_2_s, ref_temp_k) ==
    (5000 * ref_temp_k) \div (5000 - ((ref_temp_k * LnMilli(m_2_s)) \div 100000))

(***************************************************************************)
(* ImportedRecordWithEstimation: the record accessor.                      *)
(***************************************************************************)
\* culled_measurement: the sub-objects whose value and reference temperature
\* are both not None, in record order.
culled_indexes(objs, attr) ==
    {i \in 1..Len(objs) : objs[i][attr] # None /\ objs[i].ref_temp_k # None}

\* what culled_measurement leaves in the record: it writes the default
\* weathering into the very objects of the record that it keeps
culled_in_place(objs, attr) ==
    LET \* for o in obj_list: if o.weathering is None: o.weathering = 0.0
        default_weathering(o) ==
            IF o.weathering = None THEN [o EXCEPT !.weathering = 0] ELSE o
    IN  [i \in 1..Len(objs) |->
            IF i \in culled_indexes(objs, attr) THEN default_weathering(objs[i])
            ELSE objs[i]]

culled_measurement(objs, attr) ==
    FilterSeq(culled_in_place(objs, attr), culled_indexes(objs, attr))

culled_densities(rec) == culled_measurement(rec.densities, "kg_m_3")

culled_kvis(rec) == culled_measurement(rec.kvis, "m_2_s")

\* hasattr(self.record, 'dvis') is rec.has_dvis
culled_dvis(rec) == IF rec.has_dvis THEN culled_measurement(rec.dvis, "kg_ms") ELSE <<>>

\* sorted(objs, key=lambda o: o.ref_temp_k)
sorted_by_ref_temp(objs) ==
    SortedByKey(objs, [i \in 1..Len(objs) |-> objs[i].ref_temp_k])

\* lowest_temperature(obj_list): sorted by ref_temp_k, first element
lowest_temperature(objs) ==
    IF Len(objs) > 0 THEN sorted_by_ref_temp(objs)[1] ELSE None

(***************************************************************************)
(* ImportedRecordWithEstimation: densities, pour point, viscosities.       *)
(* The three methods call one another: density_at_temp asks pour_point for *)
(* the minimum temperature, pour_point asks aggregate_kvis for the lowest  *)
(* viscosity, aggregate_kvis asks density_at_temp to convert dynamic       *)
(* viscosities.                                                            *)
(***************************************************************************)
RECURSIVE density_at_temp(_, _, _)
RECURSIVE pour_point(_)
RECURSIVE aggregate_kvis(_)

\* [d for d in objs if d.weathering == weathering]
at_weathering(objs, weathering) ==
    FilterSeq(objs, {i \in 1..Len(objs) : objs[i].weathering = weathering})

\* A plausible slip: the API joins the densities only if none is measured at
\* that weathering.
get_densities_only_if_none(rec, weathering) ==
    LET api_density(from_api) ==
            [kg_m_3 |-> from_api[1], ref_temp_k |-> from_api[2], weathering |-> 0]
        with_api(densities) ==
            IF weathering = 0 /\ rec.api # None /\ Len(densities) = 0
            THEN Append(densities, api_density(est_density_from_api(rec.api)))
            ELSE densities
    IN  sorted_by_ref_temp(with_api(at_weathering(culled_densities(rec), weathering)))

\* get_densities(weathering): the API joins the densities as
\* Density(kg_m_3=..., ref_temp_k=..., weathering=0.0) if the weathering is 0,
\* the record has an API and no density is measured at 15 C
get_densities(rec, weathering) ==
    LET api_density(from_api) ==
            [kg_m_3 |-> from_api[1], ref_temp_k |-> from_api[2], weathering |-> 0]
        with_api(densities) ==
            IF /\ weathering = 0
               /\ rec.api # None
               /\ {i \in 1..Len(densities) : densities[i].ref_temp_k = T15C} = {}
            THEN Append(densities, api_density(est_density_from_api(rec.api)))
            ELSE densities
    IN  sorted_by_ref_temp(with_api(at_weathering(culled_densities(rec), weathering)))

\* _get_reference_densities for one temperature: of the pair of bounding
\* densities the lower one, or the upper one when the temperature is above both
get_reference_densities(densities, temp) ==
    LET reference_of(r) ==
            IF temp > r[1].ref_temp_k /\ temp > r[2].ref_temp_k THEN r[2] ELSE r[1]
    IN  reference_of(bounding_temperatures(densities, <<temp>>)[1])

\* _vol_expansion_coeff for one temperature.  The default coefficient is
\* 0.0009 per K if record.api > 30 else 0.0008 per K (Python 2 orders None
\* below every number, so a missing API gives 0.0008).
vol_expansion_coeff(rec, densities, temp) ==
    LET k_rho_default == IF rec.api > 300 THEN <<9, 1000000>> ELSE <<8, 1000000>>
        coeff_of(r) ==
            IF \/ temp > r[1].ref_temp_k /\ temp > r[2].ref_temp_k  \* greater_than
               \/ temp < r[1].ref_temp_k /\ temp < r[2].ref_temp_k  \* less_than
            THEN k_rho_default
            ELSE est_vol_expansion_coeff(r[1].kg_m_3, r[1].ref_temp_k,
                                         r[2].kg_m_3, r[2].ref_temp_k)
    IN  coeff_of(bounding_temperatures(densities, <<temp>>)[1])

\* A plausible slip: the temperature asked for is not raised to min_temp.
density_at_temp_no_floor(rec, temp, weathering) ==
    LET \* the branch that sets min_temp = 0.0
        no_min_temp ==
            /\ rec.pour_point_min_k = None
            /\ rec.pour_point_max_k = None
            /\ rec.has_dvis
            /\ Len(rec.dvis) > 0
        \* np.min([d.ref_temp_k for d in densities] +
        \*        [pp for pp in self.pour_point()[:2] if pp is not None])
        min_temp_of(densities, pp) ==
            MinOf({densities[i].ref_temp_k : i \in 1..Len(densities)}
                  \cup ({pp[1], pp[2]} \ {None}))
        raised_to(min_temp) == temp
        \* est.density_at_temp(ref_density, ref_temp_k, temperature, k_rho_t)
        from_reference(ref, t, k_rho_t) ==
            est_density_at_temp(ref.kg_m_3, ref.ref_temp_k, t, k_rho_t)
        \* t is the temperature raised to min_temp
        at_clamped(densities, t) ==
            from_reference(get_reference_densities(densities, t), t,
                           vol_expansion_coeff(rec, densities, t))
        given(densities, pp) ==
            IF Raised(pp) THEN pp
            ELSE IF Len(densities) = 0
            THEN Raise("IndexError")  \* density_values[greater_than, 0] on a (1, 0) array
            ELSE Return(at_clamped(densities,
                                   raised_to(IF no_min_temp THEN 0
                                             ELSE min_temp_of(densities, pp.val))))
    IN  given(get_densities(rec, weathering),
              IF no_min_temp THEN Return(<<None, None, FALSE>>) ELSE pour_point(rec))

\* density_at_temp(temperature, weathering) for a scalar temperature
density_at_temp(rec, temp, weathering) ==
    LET \* the branch that sets min_temp = 0.0
        no_min_temp ==
            /\ rec.pour_point_min_k = None
            /\ rec.pour_point_max_k = None
            /\ rec.has_dvis
            /\ Len(rec.dvis) > 0
        \* np.min([d.ref_temp_k for d in densities] +
        \*        [pp for pp in self.pour_point()[:2] if pp is not None])
        min_temp_of(densities, pp) ==
            MinOf({densities[i].ref_temp_k : i \in 1..Len(densities)}
                  \cup ({pp[1], pp[2]} \ {None}))
        \* temperature = min_temp if temperature < min_temp else temperature
        raised_to(min_temp) == IF temp < min_temp THEN min_temp ELSE temp
        \* est.density_at_temp(ref_density, ref_temp_k, temperature, k_rho_t)
        from_reference(ref, t, k_rho_t) ==
            est_density_at_temp(ref.kg_m_3, ref.ref_temp_k, t, k_rho_t)
        \* t is the temperature raised to min_temp
        at_clamped(densities, t) ==
            from_reference(get_reference_densities(densities, t), t,
                           vol_expansion_coeff(rec, densities, t))
        given(densities, pp) ==
            IF Raised(pp) THEN pp
            ELSE IF Len(densities) = 0
            THEN Raise("IndexError")  \* density_values[greater_than, 0] on a (1, 0) array
            ELSE Return(at_clamped(densities,
                                   raised_to(IF no_min_temp THEN 0
                                             ELSE min_temp_of(densities, pp.val))))
    IN  given(get_densities(rec, weathering),
              IF no_min_temp THEN Return(<<None, None, FALSE>>) ELSE pour_point(rec))

\* pour_point(): (min_k, max_k, estimated)
pour_point(rec) ==
    LET from_lowest(lowest_kvis) ==
            est_pour_point_from_kvis(lowest_kvis.m_2_s, lowest_kvis.ref_temp_k)
        from_kvis(agg) ==
            IF Raised(agg) THEN agg
            ELSE Return(<<None, from_lowest(lowest_temperature(agg.val.kvis_out)), TRUE>>)
    IN  IF rec.pour_point_min_k # None \/ rec.pour_point_max_k # None
        THEN Return(<<rec.pour_point_min_k, rec.pour_point_max_k, FALSE>>)
        ELSE from_kvis(aggregate_kvis(rec))

\* the keys (weathering, ref_temp_k) of a culled series
keys_of(objs) == {<<objs[i].weathering, objs[i].ref_temp_k>> : i \in 1..Len(objs)}

\* set(dvis_dict.keys()).difference(kvis_dict.keys())
non_redundant_keys(rec) == keys_of(culled_dvis(rec)) \ keys_of(culled_kvis(rec))

\* dvis_dict[k]: dict([((d.weathering, d.ref_temp_k), d.kg_ms) ...]), last wins
dvis_dict_get(dvis, k) ==
    dvis[MaxOf({i \in 1..Len(dvis) : <<dvis[i].weathering, dvis[i].ref_temp_k>> = k})].kg_ms

\* non_redundant_dvis(): one DVis per non-redundant key, in sorted key order
non_redundant_dvis(rec) ==
    LET \* for k in sorted(non_redundant_keys): yield DVis(...)
        of_keys(dvis, keys) ==
            [i \in 1..Len(keys) |->
                [kg_ms |-> dvis_dict_get(dvis, keys[i]),
                 ref_temp_k |-> keys[i][2],
                 weathering |-> keys[i][1]]]
    IN  of_keys(culled_dvis(rec), SortedTuples(non_redundant_keys(rec)))

\* aggregate_kvis(): (kvis_out, estimated)
aggregate_kvis(rec) ==
    LET \* kvis_list = [(k.ref_temp_k, (k.m_2_s, False)) for k in self.culled_kvis()]
        kvis_list(kvis) ==
            [i \in 1..Len(kvis) |-> <<kvis[i].ref_temp_k, <<kvis[i].m_2_s, FALSE>>>>]
        \* dvis_list = [(d.ref_temp_k, (est.dvis_to_kvis(d.kg_ms, density), True)) ...]
        dvis_list(nrd, rho) ==
            [i \in 1..Len(nrd) |->
                <<nrd[i].ref_temp_k, <<est_dvis_to_kvis(nrd[i].kg_ms, rho[i].val), TRUE>>>>]
        \* sorted([(i[0], i[1][0], i[1][1]) for i in agg.iteritems()]): the
        \* keys of the dict are distinct, temps are its keys in order
        items_at(agg, temps) ==
            [i \in 1..Len(temps) |-> <<temps[i][1], DictGet(agg, temps[i][1])>>]
        \* agg = dict(dvis_list); agg.update(kvis_list); out_items = sorted(...)
        out_items(agg) == items_at(agg, SortedTuples({<<t, 0>> : t \in DictKeys(agg)}))
        \* kvis_out, estimated = zip(*[(KVis(m_2_s=k, ref_temp_k=t), e) ...])
        zipped(items) ==
            IF Len(items) = 0
            THEN Raise("ValueError")  \* zip(*[]) unpacked into two names
            ELSE Return([kvis_out |->
                            [i \in 1..Len(items) |->
                                \* KVis(m_2_s=k, ref_temp_k=t): no weathering given
                                [m_2_s |-> items[i][2][1],
                                 ref_temp_k |-> items[i][1],
                                 weathering |-> None]],
                         estimated |-> [i \in 1..Len(items) |-> items[i][2][2]]])
        \* the first exception of density_at_temp leaves the method
        given(nrd, rho) ==
            IF \E i \in 1..Len(nrd) : Raised(rho[i])
            THEN rho[MinOf({i \in 1..Len(nrd) : Raised(rho[i])})]
            ELSE zipped(out_items(dvis_list(nrd, rho) \o kvis_list(culled_kvis(rec))))
        from_dvis(nrd) ==
            given(nrd, [i \in 1..Len(nrd) |-> density_at_temp(rec, nrd[i].ref_temp_k, 0)])
    IN  from_dvis(IF rec.has_dvis THEN non_redundant_dvis(rec) ELSE <<>>)

\* What the calls leave in the record: culled_measurement writes the default
\* weathering into the objects it keeps.  aggregate_kvis culls kvis and dvis,
\* and the densities as soon as one dynamic viscosity is converted.
record_after_aggregate_kvis(rec) ==
    [rec EXCEPT
        !.kvis = culled_in_place(rec.kvis, "m_2_s"),
        !.dvis = IF rec.has_dvis THEN culled_in_place(rec.dvis, "kg_ms") ELSE rec.dvis,
        !.densities = IF rec.has_dvis /\ non_redundant_keys(rec) # {}
                      THEN culled_in_place(rec.densities, "kg_m_3")
                      ELSE rec.densities]

(***************************************************************************)
(* Specification SpecBound: bounding_temperatures applied to every sorted  *)
(* series and every sequence of targets within the bounds.                 *)
(***************************************************************************)
\* targets: below, at, between and above the reference temperatures
BoundTargets == {26000, 27315, 28000, 28815, 30315, 32000}

\* the entries of the series, their reference temperatures in centi-kelvin
BoundObjs == [kg_m_3 : {900, 950}, ref_temp_k : {27315, 28815, 30315}, weathering : {0}]

\* no bounding_temperatures call of its own is under way
IdleBound ==
    /\ obj_list = <<>>
    /\ temperature = <<>>
    /\ bounds_out = Pending
    /\ bt_pc = "idle"

\* no estimation method is under way
IdleEst ==
    /\ record = None
    /\ est_args = Pending
    /\ est_out = Pending
    /\ est_pc = "idle"

\* no validation gate is under way
IdleGate ==
    /\ imported_rec = None
    /\ oil = None
    /\ gate_out = Pending
    /\ gate_pc = "idle"

\* no cuts are being normalized
IdleCuts ==
    /\ cut_record = None
    /\ cut_env = None
    /\ cut_oil = None
    /\ cut_out = Pending
    /\ mass_fractions = Pending
    /\ duplicate_cuts = Pending
    /\ cut_pc = "idle"

\* no batch is under way
IdleOp ==
    /\ op_record = None
    /\ op = Pending
    /\ dcop = Pending
    /\ op_pc = "idle"

IdleEc ==
    /\ cell = None
    /\ temps_out = Pending
    /\ ec_pc = "idle"

IdleDrv ==
    /\ record_ids = <<>>
    /\ pos = 0
    /\ in_transaction = FALSE
    /\ txn_log = <<>>
    /\ attached = <<>>
    /\ stages = <<>>
    /\ escaped = ""

InitBound ==
    /\ obj_list \in {s \in SeqsUpTo(BoundObjs, MaxSeries) : SortedByRefTemp(s)}
    /\ temperature \in NonEmptySeqsUpTo(BoundTargets, MaxTargets)
    /\ bounds_out = Pending
    /\ bt_pc = "call"
    /\ IdleEst
    /\ IdleGate
    /\ IdleDrv
    /\ IdleCuts
    /\ IdleOp
    /\ IdleEc

CallBoundingTemperatures ==
    /\ bt_pc = "call"
    /\ bounds_out' = bounding_temperatures(obj_list, temperature)
    /\ bt_pc' = "done"
    /\ UNCHANGED <<obj_list, temperature>>
    /\ UNCHANGED <<vars_est, vars_gate, vars_drv, vars_cuts, vars_op, vars_ec>>

NextBound == CallBoundingTemperatures

SpecBound == InitBound /\ [][NextBound]_vars

(***************************************************************************)
(* Claims about bounding_temperatures (checked under SpecBound).           *)
(***************************************************************************)
\* The pair answering target i.  A series of at most one entry yields the one
\* row [obj_list * 2], which stands for every target.
PairFor(i) == bounds_out[IF Len(obj_list) <= 1 THEN 1 ELSE i]

RefTempsOf(objs) == {objs[j].ref_temp_k : j \in 1..Len(objs)}

\* lo and hi are neighbours in the series
AdjacentIn(objs, lo, hi) ==
    \E j \in 1..(Len(objs) - 1) : lo = objs[j] /\ hi = objs[j + 1]

KvisObjs ==
    {[m_2_s |-> v, ref_temp_k |-> t, weathering |-> w] :
        v \in {10000, 20000}, t \in {27315, 28815}, w \in {None, 100}}
    \cup {[m_2_s |-> None, ref_temp_k |-> 27315, weathering |-> None],
          [m_2_s |-> 10000, ref_temp_k |-> None, weathering |-> None]}

\* dynamic viscosities at the same keys, and one incomplete measurement
DvisObjs ==
    {[kg_ms |-> 9000, ref_temp_k |-> t, weathering |-> w] :
        t \in {27315, 28815}, w \in {None, 100}}
    \cup {[kg_ms |-> None, ref_temp_k |-> 28815, weathering |-> None]}

\* density series: none, one at 15 C, two
KvisDensities ==
    {<<>>,
     <<[kg_m_3 |-> 900, ref_temp_k |-> T15C, weathering |-> None]>>,
     <<[kg_m_3 |-> 920, ref_temp_k |-> 27315, weathering |-> 0],
       [kg_m_3 |-> 900, ref_temp_k |-> T15C, weathering |-> 0]>>}

\* an imported record with the fields aggregate_kvis and density_at_temp read
KvisRecords ==
    [api : {None, 350},
     densities : KvisDensities,
     kvis : SeqsUpTo(KvisObjs, MaxKvis),
     dvis : SeqsUpTo(DvisObjs, MaxDvis),
     has_dvis : BOOLEAN,
     pour_point_min_k : {None},
     pour_point_max_k : {None, 26000}]

InitKvis ==
    /\ record \in {r \in KvisRecords : ~r.has_dvis => r.dvis = <<>>}
    /\ est_args = Pending
    /\ est_out = Pending
    /\ est_pc = "call"
    /\ IdleBound
    /\ IdleGate
    /\ IdleDrv
    /\ IdleCuts
    /\ IdleOp
    /\ IdleEc

CallAggregateKvis ==
    /\ est_pc = "call"
    /\ est_args' = [method |-> "aggregate_kvis"]
    /\ est_out' = aggregate_kvis(record)
    /\ record' = record_after_aggregate_kvis(record)
    /\ est_pc' = "done"
    /\ UNCHANGED <<vars_bt, vars_gate, vars_drv, vars_cuts, vars_op, vars_ec>>

NextKvis == CallAggregateKvis

SpecKvis == InitKvis /\ [][NextKvis]_vars

(***************************************************************************)
(* Claims about aggregate_kvis (checked under SpecKvis).                   *)
(***************************************************************************)
AggReturned == est_pc = "done" /\ ~Raised(est_out)

\* the measured kinematic values of the record at one key
MeasuredKvisAtKey(rec, k) ==
    {culled_kvis(rec)[i].m_2_s :
        i \in {j \in 1..Len(culled_kvis(rec)) :
                 <<culled_kvis(rec)[j].weathering, culled_kvis(rec)[j].ref_temp_k>> = k}}

\* C8 as stated: aggregate_kvis never returns two entries with the same
\* (weathering, ref_temp_k); and for every key that a culled kvis and a culled
\* dvis measurement share, exactly one entry results at that reference
\* temperature, flagged estimated = False and carrying the kinematic value
\* measured for that key.
C8_AsStated ==
    AggReturned =>
        LET out == est_out.val.kvis_out
            estimated == est_out.val.estimated
        IN  /\ \A i, j \in 1..Len(out) :
                   i # j => <<out[i].weathering, out[i].ref_temp_k>>
                            # <<out[j].weathering, out[j].ref_temp_k>>
            /\ \A k \in keys_of(culled_kvis(record)) \cap keys_of(culled_dvis(record)) :
                   LET hits == {i \in 1..Len(out) : out[i].ref_temp_k = k[2]}
                   IN  /\ Cardinality(hits) = 1
                       /\ \A i \in hits :
                              /\ estimated[i] = FALSE
                              /\ out[i].m_2_s \in MeasuredKvisAtKey(record, k)

\* the weathering of a returned entry, absent read as 0.0
WeatheringOf(kv) == IF kv.weathering = None THEN 0 ELSE kv.weathering

\* C9 as stated: aggregate_kvis returns exactly one entry for every distinct
\* (weathering, ref_temp_k) key among the culled kvis and dvis measurements;
\* a key with a kvis measurement carries a measured value of that key and
\* estimated = False; a key with only a dvis measurement carries kg_ms over
\* the density at that temperature and estimated = True; every entry keeps
\* the weathering of its source; the output is ordered by
\* (weathering, ref_temp_k).
C9_AsStated ==
    AggReturned =>
        LET out == est_out.val.kvis_out
            estimated == est_out.val.estimated
            kkeys == keys_of(culled_kvis(record))
            dkeys == keys_of(culled_dvis(record))
            keyOf(i) == <<WeatheringOf(out[i]), out[i].ref_temp_k>>
        IN  /\ Len(out) = Cardinality(kkeys \cup dkeys)
            /\ \A k \in kkeys \cup dkeys :
                   \E i \in 1..Len(out) :
                       /\ keyOf(i) = k
                       /\ k \in kkeys =>
                              /\ estimated[i] = FALSE
                              /\ out[i].m_2_s \in MeasuredKvisAtKey(record, k)
                       /\ k \notin kkeys =>
                              /\ estimated[i] = TRUE
                              /\ out[i].m_2_s =
                                     est_dvis_to_kvis(dvis_dict_get(culled_dvis(record), k),
                                                      density_at_temp(record, k[2], 0).val)
            /\ \A i \in 1..(Len(out) - 1) :
                   TupleLess(keyOf(i), keyOf(i + 1))

(***************************************************************************)
(* init_oil: the two validation gates.                                     *)
(***************************************************************************)
\* Python's None in a string field
NoneStr == "<None>"

\* str.lower() on the product types of the model
Lower(str) ==
    CASE str = "Crude" -> "crude"
      [] str = "Refined" -> "refined"
      [] str = "Bunker" -> "bunker"
      [] str = "REFINED" -> "refined"
      [] OTHER -> str

\* raise OilRejected(message, oil_name)
OilRejected(message, oil_name) ==
    [exc |-> "OilRejected", val |-> None, message |-> message, oil_name |-> oil_name]

\* errors = []; if <check failed>: errors.append(<message>); ... in check
\* order.  checks is the list of (failed, message).
appended_errors(checks) ==
    LET messages_of(failed) == [i \in 1..Len(failed) |-> failed[i][2]]
    IN  messages_of(FilterSeq(checks, {j \in 1..Len(checks) : checks[j][1]}))

manually_rejected(rec) == rec.adios_oil_id = None

has_product_type(rec) ==
    rec.product_type # NoneStr /\ Lower(rec.product_type) \in {"crude", "refined"}

has_api_or_densities(rec) ==
    IF rec.api # None THEN TRUE
    ELSE IF Len(rec.densities) > 0 THEN TRUE
    ELSE FALSE

has_viscosities(rec) ==
    IF Len(rec.kvis) > 0 THEN TRUE
    ELSE IF Len(rec.dvis) > 0 THEN TRUE
    ELSE FALSE

has_distillation_cuts(rec) ==
    IF rec.product_type # NoneStr /\ Lower(rec.product_type) = "crude"
    THEN Len(rec.cuts) >= 3 \/ rec.api # None \/ Len(rec.densities) > 0
    ELSE Len(rec.cuts) >= 3

\* the checks of the pre-estimation gate, in the order of the code
pre_gate_checks(rec) ==
    <<<<manually_rejected(rec), "Imported Record was manually rejected">>,
      <<~has_product_type(rec), "Imported Record has no product type">>,
      <<~has_api_or_densities(rec), "Imported Record has no density information">>,
      <<~has_viscosities(rec), "Imported Record has no viscosity information">>,
      <<~has_distillation_cuts(rec), "Imported Record has insufficient cut data">>>>

\* if len(errors) > 0: raise OilRejected(errors, imported_rec.adios_oil_id),
\* the raise of both gates
raise_if_errors(errors, oil_name) ==
    IF Len(errors) > 0 THEN OilRejected(errors, oil_name) ELSE Return(None)

\* A plausible slip: raise at the first failed check (fail-fast).
reject_imported_record_fail_fast(rec) ==
    raise_if_errors(SubSeq(appended_errors(pre_gate_checks(rec)), 1, 1),
                    rec.adios_oil_id)

reject_imported_record_if_requirements_not_met(rec) ==
    raise_if_errors(appended_errors(pre_gate_checks(rec)), rec.adios_oil_id)

oil_has_kvis(o) == Len(o.kvis) > 0

\* len(oil.cuts) != len(set(vapor temperatures))
oil_has_duplicate_cuts(o) ==
    Len(o.cuts) # Cardinality({o.cuts[i].vapor_temp_k : i \in 1..Len(o.cuts)})

\* the densities of the Resins entries of oil.sara_densities, in order
resin_rho_of(o) ==
    FilterSeq(o.sara_densities,
              {i \in 1..Len(o.sara_densities) : o.sara_densities[i].sara_type = "Resins"})

\* resin_rho = 1100.0 without a Resins density, else np.max((resin_rho[0], 1100.0))
heavy_threshold(o) ==
    LET resin_rho_max(resin_rho) ==
            IF Len(resin_rho) = 0 THEN 1100 ELSE MaxOf({resin_rho[1].density, 1100})
    IN  resin_rho_max(resin_rho_of(o))

\* some density of the given SARA types is above the threshold
any_above(sara_densities, types, threshold) ==
    \E i \in 1..Len(sara_densities) :
        /\ sara_densities[i].sara_type \in types
        /\ sara_densities[i].density > threshold

\* A plausible slip: only the Saturates are compared.
oil_has_heavy_saturates_only(o) ==
    any_above(o.sara_densities, {"Saturates"}, heavy_threshold(o))

oil_has_heavy_sa_components(o) ==
    any_above(o.sara_densities, {"Saturates", "Aromatics"}, heavy_threshold(o))

\* OilWithEstimation(oil).density_at_temp(temp): the density accessor over
\* the oil's own densities, api and pour point
oil_density_at_temp(o, temp) ==
    density_at_temp([api |-> o.api, densities |-> o.densities,
                     kvis |-> o.kvis, dvis |-> <<>>, has_dvis |-> FALSE,
                     pour_point_min_k |-> o.pour_point_min_k,
                     pour_point_max_k |-> o.pour_point_max_k],
                    temp, 0)

\* np.isclose(a, b, rtol=0.05): |a - b| <= atol + 0.05 * |b|, atol = 1e-8
np_isclose(a, b) ==
    LET diff == IF a >= b THEN a - b ELSE b - a
        mag == IF b >= 0 THEN b ELSE 0 - b
    IN  20 * diff <= mag

\* oil_api_matches_density, given what the density accessor did at 15 C
api_matches(o, rho) == np_isclose(o.api, est_api_from_density(rho.val))

oil_api_matches_density(o) == api_matches(o, oil_density_at_temp(o, T15C))

\* reject_oil_if_bad: the checks in the order of the code; an exception of
\* the density accessor leaves the gate as it is
reject_oil_if_bad(o) ==
    LET post_gate_checks(rho) ==
            <<<<~oil_has_kvis(o), "Oil has no kinematic viscosities">>,
              <<oil_has_duplicate_cuts(o), "Oil has duplicate cuts">>,
              <<oil_has_heavy_sa_components(o), "Oil has heavy SA components">>,
              <<~api_matches(o, rho), "Oil API does not match its density">>>>
        given(rho) ==
            IF Raised(rho) THEN rho
            ELSE raise_if_errors(appended_errors(post_gate_checks(rho)), o.adios_oil_id)
    IN  given(oil_density_at_temp(o, T15C))

(***************************************************************************)
(* ImportedRecordWithEstimation: viscosity at a temperature, inert         *)
(* fractions.                                                              *)
(***************************************************************************)
\* the value of a correlation of est whose formula the model does not need:
\* the application of the function to its arguments
est_apply(fn, args) == [fn |-> fn, args |-> args]

\* est.kvis_at_temp(ref_kvis, ref_temp_k, temp_k)
\*   = ref_kvis * exp(k_v2 / temp_k - k_v2 / ref_temp_k), k_v2 = 5000 K.
\* The exponent x is kept in 1/10000 and exp(x) is summed as its series;
\* at the reference temperature x = 0 and the value is ref_kvis itself.
est_kvis_at_temp(ref_kvis, ref_temp_k, temp_k) ==
    LET x == ((500000000 \div temp_k) * (ref_temp_k - temp_k) * 10) \div ref_temp_k
        term(prev, n) == (prev * x) \div (n * 10000)
        series(t1, t2, t3, t4, t5, t6) == 10000 + t1 + t2 + t3 + t4 + t5 + t6
        from5(t1, t2, t3, t4, t5) == series(t1, t2, t3, t4, t5, term(t5, 6))
        from4(t1, t2, t3, t4) == from5(t1, t2, t3, t4, term(t4, 5))
        from3(t1, t2, t3) == from4(t1, t2, t3, term(t3, 4))
        from2(t1, t2) == from3(t1, t2, term(t2, 3))
    IN  (ref_kvis * from2(x, term(x, 2))) \div 10000

\* closest_to_temperature(obj_list, temperature) for a scalar temperature and
\* num = 1: the list itself if it has at most one entry, else a list of the
\* one entry nearest in ref_temp_k
closest_to_temperature(objs, temp) ==
    LET \* abs(obj.ref_temp_k - temperature)
        temp_diff(obj) ==
            IF obj.ref_temp_k >= temp THEN obj.ref_temp_k - temp ELSE temp - obj.ref_temp_k
    IN  IF Len(objs) <= 1 THEN objs
        ELSE <<objs[MinOf({i \in 1..Len(objs) :
                              \A j \in 1..Len(objs) :
                                  temp_diff(objs[i]) <= temp_diff(objs[j])})]>>

\* kvis_at_temp(temp_k, weathering) for a scalar temperature
kvis_at_temp(rec, temp_k, weathering) ==
    LET \* est.kvis_at_temp on closest_kvis[0]
        from_closest(closest) ==
            IF Len(closest) = 0
            THEN Raise("IndexError")  \* closest_to_temperature([], ...)[0]
            ELSE Return(est_kvis_at_temp(closest[1].m_2_s, closest[1].ref_temp_k, temp_k))
        given(agg) ==
            IF Raised(agg) THEN agg
            ELSE from_closest(
                     \* [kv for kv in ... if kv.weathering == weathering]
                     closest_to_temperature(at_weathering(agg.val.kvis_out, weathering),
                                            temp_k))
    IN  given(aggregate_kvis(rec))

\* inert_fractions(): the pair (f_res, f_asph)
inert_fractions(rec) ==
    LET f_res_of(density, viscosity) ==
            IF rec.resins = None
            THEN est_apply("resin_fraction", <<density, viscosity>>)
            ELSE rec.resins
        f_asph_of(density, viscosity, f_res) ==
            IF rec.asphaltenes = None
            THEN est_apply("asphaltene_fraction", <<density, viscosity, f_res>>)
            ELSE rec.asphaltenes
        \* return f_res, f_asph
        pair_with(density, viscosity, f_res) ==
            <<f_res, f_asph_of(density, viscosity, f_res)>>
        given(density, viscosity) ==
            IF Raised(density) THEN density
            ELSE IF Raised(viscosity) THEN viscosity
            ELSE Return(pair_with(density.val, viscosity.val,
                                  f_res_of(density.val, viscosity.val)))
    IN  IF rec.resins # None /\ rec.asphaltenes # None
        THEN Return(<<rec.resins, rec.asphaltenes>>)
        ELSE given(density_at_temp(rec, T15C, 0), kvis_at_temp(rec, T15C, 0))

\* est.api_from_density on what density_at_temp did
api_of(rho) == IF Raised(rho) THEN rho ELSE Return(est_api_from_density(rho.val))

\* get_api()
get_api(rec) ==
    IF rec.api # None THEN Return(rec.api)
    ELSE IF Len(get_densities(rec, 0)) > 0
    THEN api_of(density_at_temp(rec, T15C, 0))
    ELSE Return(None)

(***************************************************************************)
(* init_oil: generate_oil and its builder steps, add_oil.                  *)
(***************************************************************************)
\* oil = Oil()
NewOil ==
    [adios_oil_id |-> None, api |-> None, densities |-> <<>>, kvis |-> <<>>,
     viscosities_estimated |-> FALSE,
     resins_fraction |-> None, asphaltenes_fraction |-> None,
     cuts |-> <<>>, sara_densities |-> <<>>,
     pour_point_min_k |-> None, pour_point_max_k |-> None]

add_demographics(rec, o) == [o EXCEPT !.adios_oil_id = rec.adios_oil_id]

\* add_densities: every exception is caught and logged, the oil is left
\* without api (and, had get_densities raised, without densities)
add_densities(rec, o) ==
    LET with_densities_api(densities, api) ==
            IF Raised(api)
            THEN [o EXCEPT !.densities = densities]
            ELSE [o EXCEPT !.densities = densities, !.api = api.val]
    IN  with_densities_api(get_densities(rec, 0), get_api(rec))

add_viscosities(rec, o) ==
    LET with_viscosities(agg) ==
            IF Raised(agg) THEN agg
            ELSE Return([o EXCEPT
                           !.kvis = agg.val.kvis_out,
                           !.viscosities_estimated =
                               \E i \in 1..Len(agg.val.estimated) : agg.val.estimated[i]])
    IN  with_viscosities(aggregate_kvis(rec))

\* f_res, f_asph, estimated = imp_rec_obj.inert_fractions()
add_inert_fractions(rec, o) ==
    LET \* Python's "a, b, c = value": ValueError unless value has exactly n items
        unpack(value, n) ==
            IF Len(value) = n THEN Return(value) ELSE Raise("ValueError")
        unpacked(fractions) ==
            IF Raised(fractions) THEN fractions ELSE unpack(fractions.val, 3)
        \* oil.resins_fraction, oil.asphaltenes_fraction = f_res, f_asph
        with_fractions(names) ==
            IF Raised(names) THEN names
            ELSE Return([o EXCEPT !.resins_fraction = names.val[1],
                                  !.asphaltenes_fraction = names.val[2]])
    IN  with_fractions(unpacked(inert_fractions(rec)))

\* generate_oil(imported_rec): the builder steps in order, the first
\* exception leaves the function.  No step after add_inert_fractions is ever
\* entered (the unpacking above raises whenever inert_fractions returns), so
\* the oil after add_inert_fractions stands for the returned oil.
generate_oil(rec) ==
    LET after_viscosities(viscous) ==
            IF Raised(viscous) THEN viscous ELSE add_inert_fractions(rec, viscous.val)
    IN  after_viscosities(
            add_viscosities(rec, add_densities(rec, add_demographics(rec, NewOil))))

\* the stages of add_oil, in the order of the code
StageOrder == <<"pre_gate", "generate_oil", "post_gate", "assign">>

\* the end of add_oil: an exception after the stages entered so far, or the
\* return with record.oil assigned
add_oil_end(result, entered, o) ==
    IF Raised(result)
    THEN [result |-> result, stages |-> entered, oil |-> None]
    ELSE [result |-> Return(None), stages |-> Append(entered, "assign"), oil |-> o]

\* add_oil from the post-estimation gate on
add_oil_post(generated, entered) ==
    IF Raised(generated)
    THEN add_oil_end(generated, entered, None)
    ELSE add_oil_end(reject_oil_if_bad(generated.val),
                     Append(entered, "post_gate"), generated.val)

\* A plausible slip: the estimations run before the pre-estimation gate.
add_oil_generate_first(rec) ==
    IF Raised(generate_oil(rec))
    THEN add_oil_end(generate_oil(rec), <<"generate_oil">>, None)
    ELSE IF Raised(reject_imported_record_if_requirements_not_met(rec))
    THEN add_oil_end(reject_imported_record_if_requirements_not_met(rec),
                     <<"generate_oil", "pre_gate">>, None)
    ELSE add_oil_post(generate_oil(rec), <<"generate_oil", "pre_gate">>)

\* add_oil(record): what it returned or raised, the stages it entered, and
\* record.oil afterwards
add_oil(rec) ==
    LET after_gate(pre) ==
            IF Raised(pre)
            THEN add_oil_end(pre, SubSeq(StageOrder, 1, 1), None)
            ELSE add_oil_post(generate_oil(rec), SubSeq(StageOrder, 1, 2))
    IN  after_gate(reject_imported_record_if_requirements_not_met(rec))

(***************************************************************************)
(* Specification SpecGates: each gate applied to every record, resp. every *)
(* oil, built from the values below.                                       *)
(***************************************************************************)
\* most cuts of an imported record handed to the pre-estimation gate
MaxGateCuts == 3

\* most pseudo-component densities of an oil handed to reject_oil_if_bad
MaxSara == 3

\* most cuts of an oil handed to reject_oil_if_bad
MaxOilCuts == 2

GateDensity == [kg_m_3 |-> 876, ref_temp_k |-> T15C, weathering |-> None]

GateKvis == [m_2_s |-> 10000, ref_temp_k |-> T15C, weathering |-> None]

GateDvis == [kg_ms |-> 9000, ref_temp_k |-> T15C, weathering |-> None]

GateCut == [vapor_temp_k |-> 40000, fraction |-> 100]

\* a density measurement without a value: counted by the pre-estimation
\* gate, dropped by culled_densities
NullDensity == [kg_m_3 |-> None, ref_temp_k |-> T15C, weathering |-> None]

\* imported records: the fields the pre-estimation gate reads
GateRecords ==
    [adios_oil_id : {None, 7},
     product_type : {NoneStr, "Crude", "refined", "Bunker"},
     api : {None, 300},
     densities : {<<>>, <<GateDensity>>, <<NullDensity>>},
     kvis : {<<>>, <<GateKvis>>},
     dvis : {<<>>, <<GateDvis>>},
     cuts : SeqsUpTo({GateCut}, MaxGateCuts)]

\* pseudo-component densities around the 1100 kg/m3 bound
SaraDensityObjs ==
    {[sara_type |-> "Resins", density |-> 1000],
     [sara_type |-> "Resins", density |-> 1150],
     [sara_type |-> "Saturates", density |-> 1050],
     [sara_type |-> "Saturates", density |-> 1120],
     [sara_type |-> "Aromatics", density |-> 1120],
     [sara_type |-> "Aromatics", density |-> 1200]}

\* oils as generate_oil builds them: api and pour point are always set, and
\* component_types() names one Resins component: at most one Resins density
GateOils ==
    {o \in [adios_oil_id : {7},
             api : {300},
             densities : {<<GateDensity>>,
                          <<[kg_m_3 |-> 1000, ref_temp_k |-> T15C, weathering |-> 0]>>},
             kvis : {<<>>, <<GateKvis>>},
             cuts : SeqsUpTo({[vapor_temp_k |-> t, fraction |-> 100] : t \in {30000, 40000}},
                             MaxOilCuts),
             sara_densities : SeqsUpTo(SaraDensityObjs, MaxSara),
             pour_point_min_k : {None},
             pour_point_max_k : {26000}] :
        Cardinality({i \in 1..Len(o.sara_densities) :
                        o.sara_densities[i].sara_type = "Resins"}) <= 1}

InitGates ==
    /\ \/ /\ imported_rec \in GateRecords
          /\ oil = None
          /\ gate_pc = "pre_call"
       \/ /\ imported_rec = None
          /\ oil \in GateOils
          /\ gate_pc = "post_call"
    /\ gate_out = Pending
    /\ IdleBound
    /\ IdleEst
    /\ IdleDrv
    /\ IdleCuts
    /\ IdleOp
    /\ IdleEc

CallPreGate ==
    /\ gate_pc = "pre_call"
    /\ gate_out' = reject_imported_record_if_requirements_not_met(imported_rec)
    /\ gate_pc' = "pre"
    /\ UNCHANGED <<imported_rec, oil>>
    /\ UNCHANGED <<vars_bt, vars_est, vars_drv, vars_cuts, vars_op, vars_ec>>

CallRejectOilIfBad ==
    /\ gate_pc = "post_call"
    /\ gate_out' = reject_oil_if_bad(oil)
    /\ gate_pc' = "post"
    /\ UNCHANGED <<imported_rec, oil>>
    /\ UNCHANGED <<vars_bt, vars_est, vars_drv, vars_cuts, vars_op, vars_ec>>

NextGates == CallPreGate \/ CallRejectOilIfBad

SpecGates == InitGates /\ [][NextGates]_vars

(***************************************************************************)
(* Claims about the gates (checked under SpecGates).                       *)
(***************************************************************************)
\* the message of a check if it failed, nothing otherwise
MessageIf(failed, message) == IF failed THEN <<message>> ELSE <<>>

\* one message per failed check of the pre-estimation gate, in check order
PreGateReasons(rec) ==
    MessageIf(rec.adios_oil_id = None, "Imported Record was manually rejected")
    \o MessageIf(Lower(rec.product_type) \notin {"crude", "refined"},
                 "Imported Record has no product type")
    \o MessageIf(rec.api = None /\ rec.densities = <<>>,
                 "Imported Record has no density information")
    \o MessageIf(rec.kvis = <<>> /\ rec.dvis = <<>>,
                 "Imported Record has no viscosity information")
    \o MessageIf(~(\/ Len(rec.cuts) >= 3
                   \/ /\ Lower(rec.product_type) = "crude"
                      /\ (rec.api # None \/ rec.densities # <<>>)),
                 "Imported Record has insufficient cut data")

\* one message per failed check of reject_oil_if_bad, in check order
PostGateReasons(o) ==
    MessageIf(o.kvis = <<>>, "Oil has no kinematic viscosities")
    \o MessageIf(\E i, j \in 1..Len(o.cuts) :
                     i # j /\ o.cuts[i].vapor_temp_k = o.cuts[j].vapor_temp_k,
                 "Oil has duplicate cuts")
    \o MessageIf(oil_has_heavy_sa_components(o), "Oil has heavy SA components")
    \o MessageIf(~oil_api_matches_density(o), "Oil API does not match its density")

\* what a gate does, given the reasons: nothing if there are none, else
\* OilRejected with exactly these reasons and the adios_oil_id
GateOutcome(out, reasons, id) ==
    IF reasons = <<>>
    THEN out = Return(None)
    ELSE /\ out.exc = "OilRejected"
         /\ out.message = reasons
         /\ out.oil_name = id

\* C1: each gate evaluates every check before raising: it raises OilRejected
\* if and only if at least one check fails, the reason list holds exactly one
\* message per failed check, in check order, together with the record's
\* adios_oil_id; when no check fails nothing is raised.
C1_GatesAccumulate ==
    /\ gate_pc = "pre" =>
           GateOutcome(gate_out, PreGateReasons(imported_rec), imported_rec.adios_oil_id)
    /\ gate_pc = "post" =>
           GateOutcome(gate_out, PostGateReasons(oil), oil.adios_oil_id)

\* C1 witness: the pre-estimation gate has rejected a record that fails the
\* first, the third and the fifth check, with the three reasons in that order.
C1_Witness ==
    /\ gate_pc = "pre"
    /\ gate_out.exc = "OilRejected"
    /\ gate_out.message = <<"Imported Record was manually rejected",
                            "Imported Record has no density information",
                            "Imported Record has insufficient cut data">>

\* the oil was accepted by reject_oil_if_bad
Accepted == gate_pc = "post" /\ ~Raised(gate_out)

\* the Saturates and Aromatics densities of an oil
SaDensities(o) ==
    {o.sara_densities[i].density :
        i \in {j \in 1..Len(o.sara_densities) :
                 o.sara_densities[j].sara_type \in {"Saturates", "Aromatics"}}}

\* the Resins densities of an oil
ResinsDensities(o) ==
    {o.sara_densities[i].density :
        i \in {j \in 1..Len(o.sara_densities) : o.sara_densities[j].sara_type = "Resins"}}

\* C7 as stated: in an accepted oil no Saturates or Aromatics density exceeds
\* the Resins density; the 1100 kg/m3 bound is the threshold only when the
\* oil has no Resins density.
C7_AsStated ==
    Accepted =>
        \A d \in SaDensities(oil) :
            IF ResinsDensities(oil) = {}
            THEN d <= 1100
            ELSE \A r \in ResinsDensities(oil) : d <= r

\* C7 amended: in an accepted oil no Saturates or Aromatics density exceeds
\* the larger of the Resins density and 1100 kg/m3 (1100 kg/m3 alone when
\* the oil has no Resins density).
C7_HeavySaThreshold ==
    Accepted =>
        \A d \in SaDensities(oil) :
            /\ ResinsDensities(oil) = {} => d <= 1100
            /\ \A r \in ResinsDensities(oil) : d <= r \/ d <= 1100

\* C7 witness: an accepted oil with a Resins density above 1100 kg/m3 and a
\* Saturates density between 1100 kg/m3 and the Resins density.
C7_Witness ==
    /\ Accepted
    /\ ResinsDensities(oil) = {1150}
    /\ 1120 \in SaDensities(oil)

(***************************************************************************)
(* Specification Spec: process_oils over every batch of imported records   *)
(* built from the values below.                                            *)
(***************************************************************************)
\* most records of a batch
MaxBatch == 2

\* a kinematic viscosity without a value
NullKvis == [m_2_s |-> None, ref_temp_k |-> T15C, weathering |-> None]

\* the imported records of a batch, before their ids are given
BatchRecords ==
    [adios_oil_id : {None},
     product_type : {"Crude", "Bunker"},
     api : {None, 300},
     densities : {<<NullDensity>>},
     kvis : {<<NullKvis>>, <<GateKvis>>},
     dvis : {<<>>, <<GateDvis>>},
     has_dvis : {TRUE},
     cuts : {<<>>},
     resins : {None, 100},
     asphaltenes : {50},
     pour_point_min_k : {None},
     pour_point_max_k : {None}]

Init ==
    \* record_ids = [r.adios_oil_id for r in session.query(ImportedRecord)]:
    \* the records of the table carry distinct ids
    /\ \E batch \in SeqsUpTo(BatchRecords, MaxBatch) :
           record_ids = [i \in 1..Len(batch) |-> [batch[i] EXCEPT !.adios_oil_id = i]]
    /\ pos = 0
    /\ in_transaction = FALSE
    /\ txn_log = <<>>
    /\ attached = [i \in 1..Len(record_ids) |-> None]
    /\ stages = <<>>
    /\ escaped = ""
    /\ IdleBound
    /\ IdleEst
    /\ IdleGate
    /\ IdleCuts
    /\ IdleOp
    /\ IdleEc

\* for record_id in record_ids: session = session_class();
\* transaction.begin(); rec = session.query(...).one()
BeginRecord ==
    /\ escaped = ""
    /\ ~in_transaction
    /\ pos < Len(record_ids)
    /\ pos' = pos + 1
    /\ in_transaction' = TRUE
    /\ UNCHANGED <<record_ids, txn_log, attached, stages, escaped>>
    /\ UNCHANGED <<vars_bt, vars_est, vars_gate, vars_cuts, vars_op, vars_ec>>

\* try: add_oil(rec); transaction.commit()
\* except OilRejected: transaction.abort()
\* (any other exception leaves process_oils, the transaction still open)
AddOil ==
    /\ escaped = ""
    /\ in_transaction
    /\ \E done \in {add_oil(record_ids[pos])} :
           /\ stages' = Append(stages, done.stages)
           /\ attached' = [attached EXCEPT ![pos] = done.oil]
           /\ IF ~Raised(done.result)
              THEN /\ txn_log' = Append(txn_log, "commit")
                   /\ in_transaction' = FALSE
                   /\ escaped' = ""
              ELSE IF done.result.exc = "OilRejected"
              THEN /\ txn_log' = Append(txn_log, "abort")
                   /\ in_transaction' = FALSE
                   /\ escaped' = ""
              ELSE /\ txn_log' = txn_log
                   /\ in_transaction' = in_transaction
                   /\ escaped' = done.result.exc
    /\ UNCHANGED <<record_ids, pos>>
    /\ UNCHANGED <<vars_bt, vars_est, vars_gate, vars_cuts, vars_op, vars_ec>>

Next == BeginRecord \/ AddOil

Spec == Init /\ [][Next]_vars

(***************************************************************************)
(* Claims about add_oil and process_oils (checked under Spec).             *)
(***************************************************************************)
\* s is an initial part of t
IsPrefix(s, t) == Len(s) <= Len(t) /\ s = SubSeq(t, 1, Len(s))

\* the pre-estimation gate rejects the record
FailsPreGate(rec) ==
    \/ rec.adios_oil_id = None
    \/ Lower(rec.product_type) \notin {"crude", "refined"}
    \/ rec.api = None /\ rec.densities = <<>>
    \/ rec.kvis = <<>> /\ rec.dvis = <<>>
    \/ ~has_distillation_cuts(rec)

\* C2: in add_oil the stages run strictly in the order pre-estimation gate,
\* generate_oil, post-estimation gate, assignment of record.oil; when the
\* pre-estimation gate raises, generate_oil is never called; record.oil is
\* assigned only after all four stages; a rejected (aborted) record has no
\* oil attached.
C2_AddOilOrder ==
    /\ \A i \in 1..Len(stages) :
           /\ stages[i] # <<>>
           /\ IsPrefix(stages[i], StageOrder)
           /\ FailsPreGate(record_ids[i]) => stages[i] = <<"pre_gate">>
    /\ \A i \in 1..Len(record_ids) :
           attached[i] # None => i <= Len(stages) /\ stages[i] = StageOrder
    /\ \A i \in 1..Len(txn_log) :
           txn_log[i] = "abort" => attached[i] = None

\* C2 witness: a record rejected by the pre-estimation gate has been
\* aborted: only the gate ran and no oil is attached.
C2_Witness ==
    /\ Len(txn_log) >= 1
    /\ txn_log[1] = "abort"
    /\ stages[1] = <<"pre_gate">>
    /\ attached[1] = None

\* C3 as stated: for every record that passes the pre-estimation gate,
\* add_oil ends with generate_oil complete and the oil accepted or rejected
\* by reject_oil_if_bad, or with OilRejected: no other exception leaves it.
C3_AsStated ==
    /\ escaped = ""
    /\ \A i \in 1..Len(stages) :
           ~FailsPreGate(record_ids[i]) => Len(stages[i]) >= 3

\* process_oils has ended: the loop ran out of records or an exception left it
Ended == escaped # "" \/ (pos = Len(record_ids) /\ ~in_transaction)

\* C4 as stated: process_oils visits every record of the batch exactly once;
\* for each record exactly one of commit or abort happens; a bad record
\* never keeps a later record from being processed.
C4_AsStated ==
    /\ Len(txn_log) = IF in_transaction THEN pos - 1 ELSE pos
    /\ Ended => /\ pos = Len(record_ids)
                /\ Len(txn_log) = Len(record_ids)
                /\ Len(stages) = Len(record_ids)

(***************************************************************************)
(* ImportedRecordWithEstimation: normalized distillation cuts and the      *)
(* pseudo-component mass fractions.                                        *)
(* The vapor temperatures of imported cuts are whole kelvins and their     *)
(* fractions are in 1/FracUnit.  Inside the fit every fraction is in       *)
(* 1/(FracUnit * Micro); the temperatures returned are in centi-kelvin.    *)
(***************************************************************************)
\* the finer unit of the fractions inside normalized_cut_values: 1/FracUnit
\* is Micro of them
Micro == 1000

\* one kelvin in centi-kelvin
CentiK == 100

\* normalized_cut_values(self, N=10)
DefaultN == 10

\* f_cutoff = _linear_curve(732.0, *popt)
CutoffTempK == 732

\* for _i in range(20)
Iterations == 20

RECURSIVE SumSeq(_)
\* sum(s)
SumSeq(s) == IF s = <<>> THEN 0 ELSE Head(s) + SumSeq(Tail(s))

RECURSIVE GCD(_, _)
\* greatest common divisor of m >= 0 and n >= 0
GCD(m, n) == IF n = 0 THEN m ELSE GCD(n, m % n)

Abs(x) == IF x >= 0 THEN x ELSE 0 - x

\* the rational num / den (den > 0) in lowest terms, as <<numerator, denominator>>
Rat(num, den) ==
    LET by(g) == <<num \div g, den \div g>>
    IN  by(GCD(Abs(num), den))

\* the rational r of 1/FracUnit as a whole number of 1/(FracUnit * Micro)
micro_of(r) == (Micro * r[1]) \div r[2]

\* (x * g) / unit for 0 <= g <= unit, without leaving the 32-bit range
MulDiv(x, g, unit) == (x \div unit) * g + ((x % unit) * g) \div unit

RECURSIVE culled_from_temp_only(_, _, _)
\* A plausible slip: the loop of culled_cuts compares the temperatures only.
culled_from_temp_only(cuts, prev_temp, prev_fraction) ==
    IF cuts = <<>> THEN <<>>
    ELSE IF Head(cuts).vapor_temp_k < prev_temp
    THEN culled_from_temp_only(Tail(cuts), prev_temp, prev_fraction)
    ELSE <<Head(cuts)>> \o culled_from_temp_only(Tail(cuts), Head(cuts).vapor_temp_k,
                                                 Head(cuts).fraction)

RECURSIVE culled_from(_, _, _)
\* the loop of culled_cuts: a cut whose temperature or fraction is below
\* that of the last cut kept is skipped
culled_from(cuts, prev_temp, prev_fraction) ==
    IF cuts = <<>> THEN <<>>
    ELSE IF Head(cuts).vapor_temp_k < prev_temp
    THEN culled_from(Tail(cuts), prev_temp, prev_fraction)
    ELSE IF Head(cuts).fraction < prev_fraction
    THEN culled_from(Tail(cuts), prev_temp, prev_fraction)
    ELSE <<Head(cuts)>> \o culled_from(Tail(cuts), Head(cuts).vapor_temp_k,
                                       Head(cuts).fraction)

\* culled_cuts(): prev_temp = prev_fraction = 0.0
culled_cuts(rec) == culled_from(rec.cuts, 0, 0)

\* est.cut_temps_from_api(oil_api): the cut temperatures (whole kelvins) the
\* correlation gives for this API, an input of the model
est_cut_temps_from_api(oil_api, env) == env.cut_temps

\* est.fmasses_flat_dist(f_res, f_asph): the fraction left by the inert
\* components, spread evenly over n cuts
est_fmasses_flat_dist(f_res, f_asph, n) ==
    [i \in 1..n |-> (FracUnit - f_res - f_asph) \div n]

\* np.cumsum(s)
np_cumsum(s) == [i \in 1..Len(s) |-> SumSeq(SubSeq(s, 1, i))]

\* est.fmasses_from_cuts(f_evap_i): the fraction of each cut from the
\* cumulative fractions, the first one as it is
est_fmasses_from_cuts(f_evap_i) ==
    [i \in 1..Len(f_evap_i) |->
        IF i = 1 THEN f_evap_i[1] ELSE f_evap_i[i] - f_evap_i[i - 1]]

\* nan, what numpy gives for 0.0 / 0.0; arithmetic on nan gives nan and every
\* comparison with nan is False
NaN == 0 - 2

\* M_w_avg_i > 200.0
MolWtLimit == 200

\* est.saturate_mol_wt(T_i): the molecular weight of the Saturates boiling at
\* T_i (centi-kelvin), rising with T_i; the rise (g/mol per 10 K) is an input
\* of the model
est_saturate_mol_wt(T_i, env) == (T_i * env.mw_sat) \div (10 * CentiK)

\* est.aromatic_mol_wt(T_i), likewise
est_aromatic_mol_wt(T_i, env) == (T_i * env.mw_arom) \div (10 * CentiK)

\* est.saturate_mass_fraction(fmass_i, M_w_avg_i, SG_avg_i, T_i): the part of
\* the cut's fraction the correlation gives to the Saturates, the share
\* (of FracUnit) being an input of the model; nan for an average that is nan.
\* M_w_avg_i is a rational <<numerator, denominator>>, 0 / 0 being nan.
est_saturate_mass_fraction(fmass_i, M_w_avg_i, env) ==
    IF M_w_avg_i[2] = 0 THEN NaN ELSE MulDiv(fmass_i, env.sat_share, FracUnit)

\* popt, _pcov = curve_fit(_linear_curve, BP_i, fevap_i): the least-squares
\* line fraction = a T + b through points of at least two temperatures and
\* two fractions; popt = (a, b), a (1/FracUnit per kelvin) and b (1/FracUnit)
\* being rationals.  Fewer points than parameters: TypeError.
curve_fit(xs, ys) ==
    LET \* n * sum(u * v) - sum(u) * sum(v)
        cross_sum(us, vs) ==
            Len(us) * SumSeq([i \in 1..Len(us) |-> us[i] * vs[i]]) - SumSeq(us) * SumSeq(vs)
        \* the intercept for the slope a: (sum(y) - a * sum(x)) / n
        intercept(a) == Rat(SumSeq(ys) * a[2] - a[1] * SumSeq(xs), Len(xs) * a[2])
        popt(a) == <<a, intercept(a)>>
    IN  IF Len(xs) < 2 THEN Raise("TypeError")
        ELSE Return(popt(Rat(cross_sum(xs, ys), cross_sum(xs, xs))))

\* _linear_curve(x, a, b) = a * x + b, x in whole kelvins
linear_curve(x, a, b) == (x * Micro * a[1]) \div a[2] + micro_of(b)

\* the unit of the tabulated factors of clamp: 1.0 is ClampUnit
ClampUnit == 10000

\* the step of the tables of clamp in x - M: 0.01
ClampStep == 10000

\* the tables run from x - M = -0.80 to x - M = 0.80; below them the factors
\* are 0, above them 1, to the last digit of ClampUnit
ClampLow == 0 - 80

ClampHigh == 80

\* 1 / (1.0 + np.e ** (-15 * (x - M))) ** (1.0 / (1 + zeta)) for zeta = 0.12,
\* at x - M = -0.80, -0.79, ..., 0.80
LogisticOnePlusZeta ==
    <<
      0, 0, 0, 0, 0, 0, 0, 1, 1, 1, 1, 1,
      1, 1, 1, 2, 2, 2, 2, 3, 3, 4, 4, 5,
      6, 6, 7, 8, 9, 11, 12, 14, 16, 18, 21, 24,
      28, 32, 36, 41, 47, 54, 61, 70, 80, 92, 105, 120,
      137, 156, 178, 203, 232, 265, 302, 344, 392, 447, 509, 578,
      657, 747, 847, 960, 1086, 1227, 1383, 1557, 1749, 1959, 2189, 2439,
      2708, 2996, 3302, 3624, 3960, 4308, 4664, 5024, 5385, 5744, 6096, 6438,
      6766, 7079, 7374, 7650, 7905, 8140, 8354, 8548, 8723, 8880, 9020, 9144,
      9254, 9351, 9436, 9510, 9575, 9632, 9682, 9725, 9762, 9795, 9823, 9847,
      9868, 9886, 9902, 9915, 9927, 9937, 9946, 9953, 9960, 9965, 9970, 9974,
      9978, 9981, 9984, 9986, 9988, 9990, 9991, 9992, 9993, 9994, 9995, 9996,
      9996, 9997, 9997, 9998, 9998, 9998, 9999, 9999, 9999, 9999, 9999, 9999,
      9999, 9999, 10000, 10000, 10000, 10000, 10000, 10000, 10000, 10000, 10000, 10000,
      10000, 10000, 10000, 10000, 10000
    >>

\* 1 / (1.0 + np.e ** (-15 * (x - M))) ** (1.0 / (1 - zeta)) for zeta = 0.12,
\* at x - M = -0.80, -0.79, ..., 0.80
LogisticOneMinusZeta ==
    <<
      0, 0, 0, 0, 0, 0, 0, 0, 0, 0, 0, 0,
      0, 0, 0, 0, 0, 0, 0, 0, 0, 0, 1, 1,
      1, 1, 1, 1, 1, 2, 2, 2, 3, 3, 4, 5,
      6, 7, 8, 9, 11, 13, 15, 18, 22, 25, 30, 36,
      42, 50, 59, 70, 83, 98, 116, 137, 162, 191, 226, 266,
      313, 368, 432, 506, 593, 692, 807, 938, 1087, 1256, 1447, 1660,
      1896, 2156, 2440, 2747, 3076, 3424, 3788, 4164, 4549, 4938, 5326, 5709,
      6083, 6443, 6786, 7111, 7414, 7696, 7954, 8190, 8404, 8597, 8770, 8924,
      9060, 9181, 9288, 9381, 9463, 9534, 9597, 9651, 9698, 9739, 9775, 9806,
      9832, 9855, 9875, 9892, 9907, 9920, 9931, 9941, 9949, 9956, 9962, 9967,
      9972, 9976, 9979, 9982, 9985, 9987, 9989, 9990, 9992, 9993, 9994, 9995,
      9995, 9996, 9997, 9997, 9997, 9998, 9998, 9998, 9999, 9999, 9999, 9999,
      9999, 9999, 9999, 10000, 10000, 10000, 10000, 10000, 10000, 10000, 10000, 10000,
      10000, 10000, 10000, 10000, 10000
    >>

\* clamp(x, M, zeta) for the zeta = 0.12 that _inverse_linear_curve hands over
clamp(x, M) ==
    LET \* the table at step k, and on to the next step by the remainder r
        interpolated(table, k, r) ==
            table[k - ClampLow + 1]
                + ((table[k - ClampLow + 2] - table[k - ClampLow + 1]) * r) \div ClampStep
        \* a factor at d = x - M
        factor(table, d) ==
            IF d \div ClampStep < ClampLow THEN 0
            ELSE IF d \div ClampStep >= ClampHigh THEN ClampUnit
            ELSE interpolated(table, d \div ClampStep, d % ClampStep)
    IN  x - MulDiv(x, factor(LogisticOnePlusZeta, x - M), ClampUnit)
          + MulDiv(M, factor(LogisticOneMinusZeta, x - M), ClampUnit)

\* _inverse_linear_curve(y, a, b, M, zeta=0.12): (y_c - b) / a, in centi-kelvin
inverse_linear_curve(y, a, b, M) ==
    LET over_slope(y_c) == ((y_c - micro_of(b)) * a[2]) \div ((Micro \div CentiK) * a[1])
    IN  over_slope(clamp(y, M))

\* normalized_cut_values(N): (T_i, fevap_i)
normalized_cut_values(rec, N, env) ==
    LET \* np.linspace(0.0, 1.0 - f_res - f_asph, (N * 2) + 1)[1:]
        linspace(f_res, f_asph) ==
            [i \in 1..(2 * N) |-> (i * (FracUnit - f_res - f_asph) * Micro) \div (2 * N)]
        \* T_i = _inverse_linear_curve(fevap_i, *popt), popt being (a, b, f_cutoff)
        inverse_all(fevap_i, a, b, f_cutoff) ==
            [i \in 1..Len(fevap_i) |-> inverse_linear_curve(fevap_i[i], a, b, f_cutoff)]
        \* fevap_i.reshape(-1, 2)[:, 1] with T_i.reshape(-1, 2)[:, 0], as pairs
        reshaped(T_i, fevap_i) ==
            [j \in 1..(Len(T_i) \div 2) |-> <<T_i[2 * j - 1], fevap_i[2 * j]>>]
        \* above_zero = T_i > 0.0; T_i = T_i[above_zero]; fevap_i = fevap_i[above_zero]
        above_zero(pairs) == FilterSeq(pairs, {j \in 1..Len(pairs) : pairs[j][1] > 0})
        \* return T_i, fevap_i
        arrays_of(pairs) ==
            [T_i |-> [j \in 1..Len(pairs) |-> pairs[j][1]],
             fevap_i |-> [j \in 1..Len(pairs) |-> pairs[j][2]]]
        from_popt(a, b, fevap_i) ==
            arrays_of(above_zero(reshaped(inverse_all(fevap_i, a, b,
                                                      linear_curve(CutoffTempK, a, b)),
                                          fevap_i)))
        from_fit(popt, f_res, f_asph) ==
            IF Raised(popt) THEN popt
            ELSE Return(from_popt(popt.val[1], popt.val[2], linspace(f_res, f_asph)))
        \* oil_api of the branch without cuts
        oil_api_of ==
            IF rec.api # None THEN Return(rec.api)
            ELSE api_of(density_at_temp(rec, T15C, 0))
        \* BP_i = est.cut_temps_from_api(oil_api);
        \* fevap_i = np.cumsum(est.fmasses_flat_dist(f_res, f_asph))
        synthesized(oil_api, BP_i, f_res, f_asph) ==
            IF Raised(oil_api) THEN oil_api
            ELSE from_fit(curve_fit(BP_i,
                                    np_cumsum(est_fmasses_flat_dist(f_res, f_asph,
                                                                    Len(BP_i)))),
                          f_res, f_asph)
        from_cuts(cuts, f_res, f_asph) ==
            IF Len(cuts) = 0
            THEN synthesized(oil_api_of, est_cut_temps_from_api(rec.api, env),
                             f_res, f_asph)
            ELSE from_fit(
                     \* BP_i, fevap_i = zip(*[(c.vapor_temp_k, c.fraction) for c in cuts])
                     curve_fit([i \in 1..Len(cuts) |-> cuts[i].vapor_temp_k],
                               [i \in 1..Len(cuts) |-> cuts[i].fraction]),
                     f_res, f_asph)
        given(fractions) ==
            IF Raised(fractions) THEN fractions
            ELSE from_cuts(culled_cuts(rec), fractions.val[1], fractions.val[2])
    IN  given(inert_fractions(rec))

\* add_distillation_cuts(imp_rec_obj, oil): for T_i, f_evap_i in zip(...):
\* oil.cuts.append(Cut(vapor_temp_k=T_i, fraction=f_evap_i))
add_distillation_cuts(rec, o, env) ==
    LET with_cuts(values) ==
            IF Raised(values) THEN values
            ELSE Return([o EXCEPT !.cuts =
                            o.cuts \o [j \in 1..Len(values.val.T_i) |->
                                          [vapor_temp_k |-> values.val.T_i[j],
                                           fraction |-> values.val.fevap_i[j]]]])
    IN  with_cuts(normalized_cut_values(rec, DefaultN, env))

\* M_w_avg_i = (M_w_sat_i * f_sat_i / fmass_i + M_w_arom_i * f_arom_i / fmass_i)
\* of one cut, as the rational <<numerator, denominator>>; a cut without mass
\* gives 0.0 / 0.0, which is nan
M_w_avg(fmass_i, T_i, f_sat_i, f_arom_i, env) ==
    IF fmass_i = 0 THEN <<0, 0>>
    ELSE <<est_saturate_mol_wt(T_i, env) * f_sat_i
               + est_aromatic_mol_wt(T_i, env) * f_arom_i,
           fmass_i>>

\* verify_cut_fractional_masses(fmass_i, T_i, f_sat_i, f_arom_i) for arrays
\* (the except TypeError branch serves scalars, which component_mass_fractions
\* never passes): the entry assertion, f_sat_i from the correlation and
\* f_arom_i the rest of the cut, then the cuts above a molecular weight of 200
\* split by the scale of the last cut that is not above it
verify_cut_fractional_masses(fmass_i, T_i, f_sat_i, f_arom_i, env) ==
    LET cuts == 1..Len(fmass_i)
        \* np.allclose(fmass_i, f_sat_i + f_arom_i); nan is close to nothing
        allclose ==
            \A i \in cuts : /\ f_sat_i[i] # NaN
                            /\ f_arom_i[i] # NaN
                            /\ fmass_i[i] = f_sat_i[i] + f_arom_i[i]
        M_w_avg_i == [i \in cuts |->
                         M_w_avg(fmass_i[i], T_i[i], f_sat_i[i], f_arom_i[i], env)]
        \* f_sat_i = est.saturate_mass_fraction(fmass_i, M_w_avg_i, SG_avg_i, T_i)
        riazi_sat_i == [i \in cuts |->
                           est_saturate_mass_fraction(fmass_i[i], M_w_avg_i[i], env)]
        \* above_200 = M_w_avg_i > 200.0
        above_200 == {i \in cuts : /\ M_w_avg_i[i][2] # 0
                                   /\ M_w_avg_i[i][1] > MolWtLimit * M_w_avg_i[i][2]}
        \* f_sat_i[above_200 ^ True][-1], fmass_i[above_200 ^ True][-1]
        last_good == MaxOf(cuts \ above_200)
        \* scale_sat_i, a rational: 0.5 if np.all(above_200), else
        \* last_good_sat_i / last_good_fmass_i (nan if that is 0.0 / 0.0)
        scale_sat_i ==
            IF above_200 = cuts THEN <<1, 2>>
            ELSE IF riazi_sat_i[last_good] = NaN THEN <<0, 0>>
            ELSE <<riazi_sat_i[last_good], fmass_i[last_good]>>
        \* fmass_i[above_200] * scale_sat_i
        scaled(fmass) ==
            IF scale_sat_i[2] = 0 THEN NaN
            ELSE MulDiv(fmass, scale_sat_i[1], scale_sat_i[2])
        new_sat_i == [i \in cuts |->
                         IF i \in above_200 THEN scaled(fmass_i[i]) ELSE riazi_sat_i[i]]
        \* f_arom_i = fmass_i - f_sat_i, and fmass_i * (1.0 - scale_sat_i) above 200
        rest(fmass, sat) == IF sat = NaN THEN NaN ELSE fmass - sat
    IN  IF ~allclose THEN Raise("AssertionError")
        ELSE Return(<<new_sat_i,
                      [i \in cuts |-> rest(fmass_i[i], new_sat_i[i])]>>)

\* f_sat_i = fmass_i / 2.0; f_arom_i = fmass_i / 2.0
halves(fmass_i) ==
    <<[i \in 1..Len(fmass_i) |-> fmass_i[i] \div 2],
      [i \in 1..Len(fmass_i) |-> fmass_i[i] - fmass_i[i] \div 2]>>

RECURSIVE verified(_, _, _, _, _)
\* for _i in range(n): f_sat_i, f_arom_i = self.verify_cut_fractional_masses(...)
\* split is the pair, returned; an AssertionError ends the loop
verified(fmass_i, T_i, split, n, env) ==
    IF n = 0 \/ Raised(split) THEN split
    ELSE verified(fmass_i, T_i,
                  verify_cut_fractional_masses(fmass_i, T_i,
                                               split.val[1], split.val[2], env),
                  n - 1, env)

\* component_mass_fractions(): the Saturates / Aromatics pairs of the cuts,
\* then Resins and Asphaltenes
component_mass_fractions(rec, env) ==
    LET \* np.roll(np.append([f_res, f_asph], zip(f_sat_i, f_arom_i)), -2)
        rolled(f_res, f_asph, split) ==
            IF Raised(split) THEN split
            ELSE Return([i \in 1..(2 * Len(split.val[1])) |->
                            IF i % 2 = 1 THEN split.val[1][(i + 1) \div 2]
                            ELSE split.val[2][i \div 2]]
                        \o <<f_res * Micro, f_asph * Micro>>)
        \* f_sat_i = f_arom_i = fmass_i / 2.0, then the iterations
        from_fmass(f_res, f_asph, T_i, fmass_i) ==
            rolled(f_res, f_asph,
                   verified(fmass_i, T_i, Return(halves(fmass_i)), Iterations, env))
        \* fractions: what inert_fractions() did; values: get_cut_temps_fmasses()
        given(fractions, values) ==
            IF Raised(fractions) THEN fractions
            ELSE IF Raised(values) THEN values
            ELSE from_fmass(fractions.val[1], fractions.val[2], values.val.T_i,
                            est_fmasses_from_cuts(values.val.fevap_i))
    IN  given(inert_fractions(rec), normalized_cut_values(rec, DefaultN, env))

(***************************************************************************)
(* Specification SpecCuts: the cuts of one record are normalized and       *)
(* written to its oil, the component mass fractions are computed, and the  *)
(* oil is asked for duplicate cuts.                                        *)
(***************************************************************************)
\* the cuts of the imported records: (vapor_temp_k, fraction)
CutSeries ==
    {<<>>,
     <<<<400, 200>>>>,
     <<<<350, 100>>, <<450, 300>>, <<550, 500>>>>,
     <<<<400, 200>>, <<300, 100>>, <<500, 400>>>>,
     <<<<300, 500>>, <<400, 600>>, <<500, 700>>>>,
     <<<<400, 100>>, <<600, 300>>, <<800, 550>>>>,
     <<<<300, 350>>, <<400, 400>>, <<500, 450>>>>,
     <<<<300, 900>>, <<400, 950>>, <<500, 1000>>>>}

\* imported records that pass the pre-estimation gate
CutRecords ==
    {r \in [adios_oil_id : {7},
            product_type : {"Crude"},
            api : {300},
            densities : {<<GateDensity>>},
            kvis : {<<GateKvis>>},
            dvis : {<<>>},
            has_dvis : {TRUE},
            \* Cut(vapor_temp_k=..., fraction=...) for each pair
            cuts : {[i \in 1..Len(series) |->
                        [vapor_temp_k |-> series[i][1], fraction |-> series[i][2]]] :
                    series \in CutSeries},
            resins : {None, 0, 100, 200},
            asphaltenes : {0, 50, 100},
            pour_point_min_k : {None},
            pour_point_max_k : {26000}] :
        ~Raised(reject_imported_record_if_requirements_not_met(r))}

\* what the correlations of est give: the cut temperatures for the API of the
\* record, the share of a cut that goes to the Saturates, the rise of the
\* molecular weights with the boiling point
CutEnvs ==
    [cut_temps : {<<350, 450, 550, 650, 750>>},
     sat_share : {0, 400, 1000},
     mw_sat : {2},
     mw_arom : {2}]

InitCuts ==
    /\ cut_record \in CutRecords
    /\ cut_env \in CutEnvs
    /\ cut_oil = NewOil
    /\ cut_out = Pending
    /\ mass_fractions = Pending
    /\ duplicate_cuts = Pending
    /\ cut_pc = "call"
    /\ IdleBound
    /\ IdleEst
    /\ IdleGate
    /\ IdleDrv
    /\ IdleOp
    /\ IdleEc

\* add_distillation_cuts(imp_rec_obj, oil)
CallAddDistillationCuts ==
    /\ cut_pc = "call"
    /\ \E done \in {add_distillation_cuts(cut_record, cut_oil, cut_env)} :
           /\ cut_out' = IF Raised(done) THEN done ELSE Return(None)
           /\ cut_oil' = IF Raised(done) THEN cut_oil ELSE done.val
    /\ cut_pc' = "cuts"
    /\ UNCHANGED <<cut_record, cut_env, mass_fractions, duplicate_cuts>>
    /\ UNCHANGED <<vars_bt, vars_est, vars_gate, vars_drv, vars_op, vars_ec>>

\* imp_rec_obj.component_mass_fractions()
CallComponentMassFractions ==
    /\ cut_pc = "cuts"
    /\ ~Raised(cut_out)
    /\ mass_fractions' = component_mass_fractions(cut_record, cut_env)
    /\ cut_pc' = "fractions"
    /\ UNCHANGED <<cut_record, cut_env, cut_oil, cut_out, duplicate_cuts>>
    /\ UNCHANGED <<vars_bt, vars_est, vars_gate, vars_drv, vars_op, vars_ec>>

\* oil_has_duplicate_cuts(oil), the check of reject_oil_if_bad on the cuts
CallOilHasDuplicateCuts ==
    /\ cut_pc = "fractions"
    /\ duplicate_cuts' = Return(oil_has_duplicate_cuts(cut_oil))
    /\ cut_pc' = "gated"
    /\ UNCHANGED <<cut_record, cut_env, cut_oil, cut_out, mass_fractions>>
    /\ UNCHANGED <<vars_bt, vars_est, vars_gate, vars_drv, vars_op, vars_ec>>

NextCuts ==
    \/ CallAddDistillationCuts
    \/ CallComponentMassFractions
    \/ CallOilHasDuplicateCuts

SpecCuts == InitCuts /\ [][NextCuts]_vars

(***************************************************************************)
(* Claims about the normalized cuts and the component mass fractions       *)
(* (checked under SpecCuts).                                               *)
(***************************************************************************)
\* the cuts were written, the mass fractions were returned and
\* oil_has_duplicate_cuts has found no duplicate
CutsAccepted ==
    /\ cut_pc = "gated"
    /\ ~Raised(cut_out)
    /\ ~Raised(mass_fractions)
    /\ duplicate_cuts = Return(FALSE)

\* C5 as stated: for every accepted oil the mass fractions returned by
\* component_mass_fractions (the Saturates / Aromatics pairs, then Resins and
\* Asphaltenes) sum to 1.0 within the tolerance of 1e-6, also when
\* normalized_cut_values has discarded cuts whose temperature is not above 0 K.
C5_AsStated ==
    CutsAccepted =>
        Abs(SumSeq(mass_fractions.val) - FracUnit * Micro) <= 1

\* C6 as stated: for every accepted oil the cuts written from
\* normalized_cut_values are at most N, their vapor temperatures are strictly
\* increasing, their cumulative fractions are non-decreasing, and no two of
\* them share a vapor temperature.
C6_AsStated ==
    CutsAccepted =>
        /\ Len(cut_oil.cuts) <= DefaultN
        /\ \A i \in 1..(Len(cut_oil.cuts) - 1) :
               /\ cut_oil.cuts[i].vapor_temp_k < cut_oil.cuts[i + 1].vapor_temp_k
               /\ cut_oil.cuts[i].fraction <= cut_oil.cuts[i + 1].fraction

(***************************************************************************)
(* Lookups by nearest reference temperature, for a scalar temperature and  *)
(* for a sequence of temperatures.  A call passes                          *)
(*   [scalar |-> TRUE,  temps |-> <<T>>]    for temperature = T            *)
(*   [scalar |-> FALSE, temps |-> <<...>>]  for a list, tuple or array     *)
(* hasattr(temperature, '__iter__') is ~scalar.                            *)
(***************************************************************************)
\* closest_to_temperature(obj_list, temperature) with num = 1: the list itself
\* if it has at most one entry; for a scalar a list of the nearest entry; for
\* a sequence one such list per temperature ([:, :num] on the (m, n) array)
closest_to_temperature_any(objs, target) ==
    IF Len(objs) <= 1 THEN objs
    ELSE IF target.scalar THEN closest_to_temperature(objs, target.temps[1])
    ELSE [i \in 1..Len(target.temps) |-> closest_to_temperature(objs, target.temps[i])]

\* kvis_at_temp(temp_k, weathering) for a scalar or a sequence of temperatures;
\* for a sequence the value is the array est.kvis_at_temp gives
kvis_at_temp_any(rec, target, weathering) ==
    LET \* est.kvis_at_temp(ref_kvis, ref_temp_k, temp_k) broadcasts over temp_k
        est_of(ref) ==
            IF target.scalar
            THEN est_kvis_at_temp(ref.m_2_s, ref.ref_temp_k, target.temps[1])
            ELSE [i \in 1..Len(target.temps) |->
                     est_kvis_at_temp(ref.m_2_s, ref.ref_temp_k, target.temps[i])]
        \* closest_kvis = self.closest_to_temperature(kvis_list, temp_k)[0]:
        \* a KVis (the "treat as a scalar" branch), or for a sequence and two
        \* or more entries the list of the one KVis nearest temp_k[0]
        \* (len(closest_kvis) is 1: ref_kvis[0], ref_temp_k[0])
        from_closest(kvis_list, closest) ==
            IF Len(closest) = 0
            THEN Raise("IndexError")  \* closest_to_temperature([], temp_k)[0]
            ELSE IF Len(kvis_list) <= 1 \/ target.scalar
            THEN Return(est_of(closest[1]))
            ELSE Return(est_of(closest[1][1]))
        nearest(kvis_list) ==
            from_closest(kvis_list, closest_to_temperature_any(kvis_list, target))
        given(agg) ==
            IF Raised(agg) THEN agg
            ELSE nearest(at_weathering(agg.val.kvis_out, weathering))
    IN  given(aggregate_kvis(rec))

(***************************************************************************)
(* Specification SpecLookup: closest_to_temperature and kvis_at_temp       *)
(* called on the kinematic viscosities of a record.                        *)
(***************************************************************************)
\* the temperatures asked for: the two measured ones and one between them
LookupTemps == {27315, 28000, 28815}

\* a scalar temperature, or a sequence of temperatures
LookupTargets ==
    {[scalar |-> TRUE, temps |-> <<t>>] : t \in LookupTemps}
    \cup {[scalar |-> FALSE, temps |-> ts] : ts \in NonEmptySeqsUpTo(LookupTemps, MaxTargets)}

\* the weathering asked for: fresh, 10 % weathered, or weathering=None
LookupWeatherings == {0, 100, None}

\* records with kinematic viscosities only
LookupRecords ==
    {r \in KvisRecords :
        /\ ~r.has_dvis /\ r.dvis = <<>>
        /\ r.densities = <<>> /\ r.api = None /\ r.pour_point_max_k = None}

InitLookup ==
    /\ record \in LookupRecords
    /\ est_args = Pending
    /\ est_out = Pending
    /\ est_pc = "call"
    /\ IdleBound
    /\ IdleGate
    /\ IdleDrv
    /\ IdleCuts
    /\ IdleOp
    /\ IdleEc

\* ImportedRecordWithEstimation.closest_to_temperature(culled_kvis(), temperature)
CallClosestToTemperature ==
    /\ est_pc = "call"
    /\ \E target \in LookupTargets :
          /\ est_args' = [method |-> "closest_to_temperature",
                          obj_list |-> culled_kvis(record),
                          target |-> target]
          /\ est_out' = Return(closest_to_temperature_any(culled_kvis(record), target))
    /\ record' = [record EXCEPT !.kvis = culled_in_place(record.kvis, "m_2_s")]
    /\ est_pc' = "done"
    /\ UNCHANGED <<vars_bt, vars_gate, vars_drv, vars_cuts, vars_op, vars_ec>>

\* kvis_at_temp(temp_k, weathering)
CallKvisAtTemp ==
    /\ est_pc = "call"
    /\ \E target \in LookupTargets, weathering \in LookupWeatherings :
          /\ est_args' = [method |-> "kvis_at_temp",
                          target |-> target,
                          weathering |-> weathering]
          /\ est_out' = kvis_at_temp_any(record, target, weathering)
    /\ record' = record_after_aggregate_kvis(record)
    /\ est_pc' = "done"
    /\ UNCHANGED <<vars_bt, vars_gate, vars_drv, vars_cuts, vars_op, vars_ec>>

NextLookup == CallClosestToTemperature \/ CallKvisAtTemp

SpecLookup == InitLookup /\ [][NextLookup]_vars

(***************************************************************************)
(* Claims about the nearest-temperature lookups (checked under SpecLookup).*)
(***************************************************************************)
\* a method of the estimation family has been called and has ended
Called(method) == est_pc = "done" /\ est_args.method = method

\* |ref_temp_k - T|
TempDiff(obj, T) == IF obj.ref_temp_k >= T THEN obj.ref_temp_k - T ELSE T - obj.ref_temp_k

\* lst is a list of one measurement of objs that is nearest to T
OneNearest(lst, objs, T) ==
    /\ Len(lst) = 1
    /\ \E j \in 1..Len(objs) : lst[1] = objs[j]
    /\ \A j \in 1..Len(objs) : TempDiff(lst[1], T) <= TempDiff(objs[j], T)

\* kvis_at_temp gives for the sequence what it gives for each temperature alone
ElementWise(rec, target, weathering, out) ==
    LET alone(i) == kvis_at_temp(rec, target.temps[i], weathering)
    IN  IF Raised(out)
        THEN \E i \in 1..Len(target.temps) : alone(i) = out
        ELSE \A i \in 1..Len(target.temps) : alone(i) = Return(out.val[i])

\* C11 as stated: closest_to_temperature (num = 1) returns for a scalar
\* target a measurement nearest in ref_temp_k, and for a sequence of targets
\* one nearest measurement per element (a series of one entry answers every
\* target with that entry); kvis_at_temp called with a sequence gives, element
\* by element, what it gives for each temperature alone; and at the reference
\* temperature of a measurement, asked at that measurement's weathering, it
\* returns a value measured there.
C11_AsStated ==
    /\ (Called("closest_to_temperature") /\ Len(est_args.obj_list) >= 1) =>
          LET objs == est_args.obj_list
              target == est_args.target
              out == est_out.val
          IN  IF Len(objs) = 1 THEN out = objs
              ELSE IF target.scalar THEN OneNearest(out, objs, target.temps[1])
              ELSE /\ Len(out) = Len(target.temps)
                   /\ \A i \in 1..Len(out) : OneNearest(out[i], objs, target.temps[i])
    /\ (Called("kvis_at_temp") /\ ~est_args.target.scalar) =>
          ElementWise(record, est_args.target, est_args.weathering, est_out)
    /\ (Called("kvis_at_temp") /\ est_args.target.scalar) =>
          \A k \in keys_of(culled_kvis(record)) :
              (k[1] = est_args.weathering /\ k[2] = est_args.target.temps[1]) =>
                  /\ ~Raised(est_out)
                  /\ est_out.val \in MeasuredKvisAtKey(record, k)

\* C17 as stated: when the aggregated kinematic viscosities hold no entry of
\* weathering w (an entry without weathering counting as fresh, 0.0),
\* kvis_at_temp(T, w) returns None and does not raise.
C17_AsStated ==
    (/\ Called("kvis_at_temp")
     /\ est_args.weathering # None
     /\ ~Raised(aggregate_kvis(record))
     /\ \A i \in 1..Len(aggregate_kvis(record).val.kvis_out) :
            WeatheringOf(aggregate_kvis(record).val.kvis_out[i]) # est_args.weathering)
        => est_out = Return(None)

(***************************************************************************)
(* Specification SpecCull: culled_cuts applied to the cuts of a record,    *)
(* and again to the cuts it has yielded.                                   *)
(***************************************************************************)
\* most cuts of a record handed to culled_cuts
MaxCullCuts == 3

\* cuts of two temperatures (whole kelvins) and two fractions, and cuts with
\* a field left out
CullCuts == [vapor_temp_k : {None, 300, 400}, fraction : {None, 100, 200}]

InitCull ==
    /\ record \in [cuts : SeqsUpTo(CullCuts, MaxCullCuts)]
    /\ est_args = Pending
    /\ est_out = Pending
    /\ est_pc = "call"
    /\ IdleBound
    /\ IdleGate
    /\ IdleDrv
    /\ IdleCuts
    /\ IdleOp
    /\ IdleEc

\* list(self.culled_cuts())
CallCulledCuts ==
    /\ est_pc = "call"
    /\ est_args' = [method |-> "culled_cuts", cuts |-> record.cuts]
    /\ est_out' = Return(culled_cuts(record))
    /\ est_pc' = "done"
    /\ UNCHANGED record
    /\ UNCHANGED <<vars_bt, vars_gate, vars_drv, vars_cuts, vars_op, vars_ec>>

\* the cuts yielded become the cuts of the record and are culled again
CallCulledCutsAgain ==
    /\ est_pc = "done"
    /\ est_args.method = "culled_cuts"
    /\ record' = [record EXCEPT !.cuts = est_out.val]
    /\ est_args' = [method |-> "culled_cuts_again", cuts |-> est_args.cuts,
                    first |-> est_out.val]
    /\ est_out' = Return(culled_cuts(record'))
    /\ UNCHANGED est_pc
    /\ UNCHANGED <<vars_bt, vars_gate, vars_drv, vars_cuts, vars_op, vars_ec>>

NextCull == CallCulledCuts \/ CallCulledCutsAgain

SpecCull == InitCull /\ [][NextCull]_vars

(***************************************************************************)
(* Claims about culled_cuts (checked under SpecCull).                      *)
(***************************************************************************)
\* the (temperature, fraction) of the cut kept most recently before cut i when
\* the cuts kept are those of K; (0.0, 0.0) before any cut is kept
LastKept(cuts, K, i) ==
    IF K \cap (1..(i - 1)) = {} THEN [vapor_temp_k |-> 0, fraction |-> 0]
    ELSE cuts[MaxOf(K \cap (1..(i - 1)))]

\* Python 2 orders None below every number, as None = -1 is below every
\* temperature and fraction here
LowerThan(c, prev) == c.vapor_temp_k < prev.vapor_temp_k \/ c.fraction < prev.fraction

\* C12: culled_cuts yields a subsequence of record.cuts in the original order
\* whose vapor_temp_k and fraction are each non-decreasing; a cut is dropped
\* exactly when its temperature or its fraction is lower than that of the
\* most recently kept cut (0.0 for both before any cut is kept); and culling
\* the yielded sequence again returns it unchanged.
C12_CulledCuts ==
    /\ Called("culled_cuts") =>
          LET cuts == record.cuts
              out == est_out.val
          IN  /\ \E K \in SUBSET (1..Len(cuts)) :
                     /\ out = FilterSeq(cuts, K)
                     /\ \A i \in 1..Len(cuts) :
                            i \in K <=> ~LowerThan(cuts[i], LastKept(cuts, K, i))
              /\ \A i \in 1..(Len(out) - 1) :
                     /\ out[i].vapor_temp_k <= out[i + 1].vapor_temp_k
                     /\ out[i].fraction <= out[i + 1].fraction
    /\ Called("culled_cuts_again") => est_out.val = est_args.first

\* C12 witness: of three cuts the second was dropped for its lower fraction
\* and the third kept against the first (not against the dropped one), and
\* culling the two yielded cuts again has returned the same two.
C12_Witness ==
    /\ Called("culled_cuts_again")
    /\ Len(est_args.cuts) = 3
    /\ est_args.cuts[2].fraction < est_args.cuts[1].fraction
    /\ est_args.cuts[2].vapor_temp_k > est_args.cuts[1].vapor_temp_k
    /\ est_args.cuts[3].vapor_temp_k < est_args.cuts[2].vapor_temp_k
    /\ est_args.first = <<est_args.cuts[1], est_args.cuts[3]>>
    /\ est_out.val = est_args.first

(***************************************************************************)
(* density_at_temp for a scalar or a sequence of temperatures, and         *)
(* factory._add_missing_density_info.                                      *)
(***************************************************************************)
\* 1000.0 K, the upper limit of np.clip(temperature, min_temp, 1000.0)
ClipHighK == 100000

\* density_at_temp(temperature, weathering).  For a sequence the temperatures
\* are clipped to [min_temp, 1000.0]; each is then answered from its own pair
\* of bounding densities, as a scalar is.  A series of ONE density yields one
\* pair whatever the number of temperatures, and the boolean masks of
\* _get_reference_densities and _vol_expansion_coeff, one entry per
\* temperature, then index arrays of one row: numpy from 1.13 on raises
\* IndexError; older numpy (legacy_bool_index) takes the mask as the indexes
\* of its True entries, which fails as soon as a temperature after the first
\* differs from the reference temperature.
\* len(rho_t) == 1 returns rho_t[0]: a sequence of one temperature gives a scalar.
density_at_temp_any(rec, target, weathering, legacy_bool_index) ==
    LET temps == target.temps
        no_min_temp ==
            /\ rec.pour_point_min_k = None
            /\ rec.pour_point_max_k = None
            /\ rec.has_dvis
            /\ Len(rec.dvis) > 0
        min_temp_of(densities, pp) ==
            IF no_min_temp THEN 0
            ELSE MinOf({densities[i].ref_temp_k : i \in 1..Len(densities)}
                       \cup ({pp[1], pp[2]} \ {None}))
        \* np.clip(temperature, min_temp, 1000.0)
        clip(t, min_temp) ==
            IF t < min_temp THEN min_temp ELSE IF t > ClipHighK THEN ClipHighK ELSE t
        \* the scalar method raises t to min_temp itself
        element(t) == density_at_temp(rec, IF t > ClipHighK THEN ClipHighK ELSE t, weathering)
        mask_fails(densities, min_temp) ==
            \/ ~legacy_bool_index
            \/ \E i \in 2..Len(temps) : clip(temps[i], min_temp) # densities[1].ref_temp_k
        given(first, densities) ==
            IF Raised(first) THEN first
            ELSE IF Len(temps) = 1 THEN first
            ELSE IF Len(densities) = 1
                    /\ mask_fails(densities, min_temp_of(densities, pour_point(rec).val))
            THEN Raise("IndexError")
            ELSE Return([i \in 1..Len(temps) |-> element(temps[i]).val])
    IN  IF target.scalar THEN density_at_temp(rec, temps[1], weathering)
        ELSE given(element(temps[1]), get_densities(rec, weathering))

\* what density_at_temp leaves in the record: get_densities culls the
\* densities, and pour_point(), asked unless min_temp = 0.0, calls
\* aggregate_kvis when the record has no pour point
record_after_density_at_temp(rec) ==
    LET culled == [rec EXCEPT !.densities = culled_in_place(rec.densities, "kg_m_3")]
    IN  IF /\ rec.pour_point_min_k = None
           /\ rec.pour_point_max_k = None
           /\ ~(rec.has_dvis /\ Len(rec.dvis) > 0)
        THEN record_after_aggregate_kvis(culled)
        ELSE culled

\* what get_api() leaves in the record: nothing when the record has an API,
\* else what get_densities and, if there are densities, density_at_temp leave
record_after_get_api(rec) ==
    IF rec.api # None THEN rec
    ELSE IF Len(get_densities(rec, 0)) > 0 THEN record_after_density_at_temp(rec)
    ELSE [rec EXCEPT !.densities = culled_in_place(rec.densities, "kg_m_3")]

\* A plausible slip: the check for a record without density and API is left
\* out, and such a record takes the last branch.
add_missing_density_info_unchecked(rec) ==
    LET appended(from_api) ==
            [rec EXCEPT !.densities =
                <<[kg_m_3 |-> from_api[1], ref_temp_k |-> from_api[2],
                   weathering |-> None]>>]
        with_api(api) ==
            [out |-> IF Raised(api) THEN api ELSE Return(None),
             record |-> record_after_get_api(rec),
             api_set |-> ~Raised(api),
             api |-> api.val]
    IN  IF Len(rec.densities) = 0 /\ rec.api # None
        THEN [out |-> Return(None),
              record |-> appended(est_density_from_api(rec.api)),
              api_set |-> FALSE, api |-> None]
        ELSE with_api(get_api(rec))

\* factory._add_missing_density_info(oil_obj): what it returns or raises, the
\* record it leaves, and the attribute api it sets on the wrapper oil_obj
add_missing_density_info(rec) ==
    LET \* oil_obj.record.densities.append(Density(kg_m_3=..., ref_temp_k=...))
        appended(from_api) ==
            [rec EXCEPT !.densities =
                <<[kg_m_3 |-> from_api[1], ref_temp_k |-> from_api[2],
                   weathering |-> None]>>]
        \* oil_obj.api = oil_obj.get_api()
        with_api(api) ==
            [out |-> IF Raised(api) THEN api ELSE Return(None),
             record |-> record_after_get_api(rec),
             api_set |-> ~Raised(api),
             api |-> api.val]
    IN  IF Len(rec.densities) = 0 /\ rec.api = None
        THEN [out |-> Raise("ValueError"), record |-> rec, api_set |-> FALSE, api |-> None]
        ELSE IF Len(rec.densities) = 0
        THEN [out |-> Return(None),
              record |-> appended(est_density_from_api(rec.api)),
              api_set |-> FALSE, api |-> None]
        ELSE with_api(get_api(rec))

(***************************************************************************)
(* Specification SpecDensity: get_densities, density_at_temp and           *)
(* _add_missing_density_info called on the records below.                  *)
(***************************************************************************)
\* density series of a record: none; one at 15 C; one at 0 C; two, sorted and
\* not; two at one temperature; a measurement without value; 10 % weathered
\* ones; one measured below the pour points of the records; a light oil
DensitySeries ==
    LET d(rho, t, w) == [kg_m_3 |-> rho, ref_temp_k |-> t, weathering |-> w]
    IN  {<<>>,
         <<d(900, T15C, None)>>,
         <<d(920, 27315, 0)>>,
         <<d(920, 27315, 0), d(900, T15C, 0)>>,
         <<d(900, T15C, 0), d(920, 27315, None)>>,
         <<d(900, T15C, 0), d(950, T15C, 0)>>,
         <<d(None, T15C, 0)>>,
         <<d(900, T15C, 100)>>,
         <<d(920, 27315, 0), d(890, T15C, 100)>>,
         <<d(940, 25500, 0), d(900, T15C, 0)>>,
         <<d(810, 27315, 0), d(800, T15C, 0)>>}

\* (pour_point_min_k, pour_point_max_k) of a record
PourPoints == {<<None, None>>, <<None, 28000>>, <<27000, None>>}

DensityRecords ==
    {[api |-> api, densities |-> densities,
      kvis |-> kvis, dvis |-> dvis, has_dvis |-> TRUE,
      pour_point_min_k |-> pp[1], pour_point_max_k |-> pp[2]] :
        api \in {None, 300, 350}, densities \in DensitySeries,
        kvis \in {<<>>, <<[m_2_s |-> 10000, ref_temp_k |-> 27315, weathering |-> None]>>},
        dvis \in {<<>>, <<GateDvis>>},
        pp \in PourPoints}

\* the temperatures asked for
DensityTemps == {25000, 27315, 27500, T15C}

DensityTargets ==
    {[scalar |-> TRUE, temps |-> <<t>>] : t \in DensityTemps}
    \cup {[scalar |-> FALSE, temps |-> ts] : ts \in NonEmptySeqsUpTo(DensityTemps, MaxTargets)}

InitDensity ==
    /\ record \in DensityRecords
    /\ est_args = Pending
    /\ est_out = Pending
    /\ est_pc = "call"
    /\ IdleBound
    /\ IdleGate
    /\ IdleDrv
    /\ IdleCuts
    /\ IdleOp
    /\ IdleEc

\* get_densities(weathering)
CallGetDensities ==
    /\ est_pc = "call"
    /\ \E weathering \in {0, 100} :
          /\ est_args' = [method |-> "get_densities", weathering |-> weathering]
          /\ est_out' = Return(get_densities(record, weathering))
    /\ record' = [record EXCEPT !.densities = culled_in_place(record.densities, "kg_m_3")]
    /\ est_pc' = "done"
    /\ UNCHANGED <<vars_bt, vars_gate, vars_drv, vars_cuts, vars_op, vars_ec>>

\* density_at_temp(temperature, weathering), under either numpy
CallDensityAtTemp ==
    /\ est_pc = "call"
    /\ \E target \in DensityTargets, weathering \in {0, 100}, legacy_bool_index \in BOOLEAN :
          /\ est_args' = [method |-> "density_at_temp", target |-> target,
                          weathering |-> weathering]
          /\ est_out' = density_at_temp_any(record, target, weathering, legacy_bool_index)
    /\ record' = record_after_density_at_temp(record)
    /\ est_pc' = "done"
    /\ UNCHANGED <<vars_bt, vars_gate, vars_drv, vars_cuts, vars_op, vars_ec>>

\* factory._add_missing_density_info(oil_obj)
CallAddMissingDensityInfo ==
    /\ est_pc = "call"
    /\ \E done \in {add_missing_density_info(record)} :
          /\ est_args' = [method |-> "_add_missing_density_info",
                          record |-> record,
                          api_set |-> done.api_set, api |-> done.api]
          /\ est_out' = done.out
          /\ record' = done.record
    /\ est_pc' = "done"
    /\ UNCHANGED <<vars_bt, vars_gate, vars_drv, vars_cuts, vars_op, vars_ec>>

\* the temperatures the two lookups of density_at_temp are asked for
ReferenceTemps == DensityTemps \cup {28500}

\* self._vol_expansion_coeff(densities, temperature), densities being
\* get_densities(weathering); without densities closest_values is empty and
\* closest_values[:, :, 1] raises IndexError
CallVolExpansionCoeff ==
    /\ est_pc = "call"
    /\ \E temp \in ReferenceTemps, weathering \in {0, 100} :
          \E densities \in {get_densities(record, weathering)} :
              /\ est_args' = [method |-> "_vol_expansion_coeff", temp |-> temp,
                              weathering |-> weathering]
              /\ est_out' = IF Len(densities) = 0 THEN Raise("IndexError")
                            ELSE Return(vol_expansion_coeff(record, densities, temp))
    /\ record' = [record EXCEPT !.densities = culled_in_place(record.densities, "kg_m_3")]
    /\ est_pc' = "done"
    /\ UNCHANGED <<vars_bt, vars_gate, vars_drv, vars_cuts, vars_op, vars_ec>>

\* self._get_reference_densities(densities, temperature): the measurement
\* whose kg_m_3 and ref_temp_k are returned
CallGetReferenceDensities ==
    /\ est_pc = "call"
    /\ \E temp \in ReferenceTemps, weathering \in {0, 100} :
          \E densities \in {get_densities(record, weathering)} :
              /\ est_args' = [method |-> "_get_reference_densities", temp |-> temp,
                              weathering |-> weathering]
              /\ est_out' = IF Len(densities) = 0 THEN Raise("IndexError")
                            ELSE Return(get_reference_densities(densities, temp))
    /\ record' = [record EXCEPT !.densities = culled_in_place(record.densities, "kg_m_3")]
    /\ est_pc' = "done"
    /\ UNCHANGED <<vars_bt, vars_gate, vars_drv, vars_cuts, vars_op, vars_ec>>

NextDensity ==
    \/ CallGetDensities
    \/ CallDensityAtTemp
    \/ CallAddMissingDensityInfo
    \/ CallVolExpansionCoeff
    \/ CallGetReferenceDensities

SpecDensity == InitDensity /\ [][NextDensity]_vars

(***************************************************************************)
(* Claims about the densities (checked under SpecDensity).                 *)
(***************************************************************************)
\* the temperature the call has asked for (a scalar call)
AskedTemp == est_args.target.temps[1]

\* a scalar density_at_temp call has returned
ScalarDensityReturned ==
    Called("density_at_temp") /\ est_args.target.scalar /\ ~Raised(est_out)

\* the reference temperatures of the densities at the weathering asked for
DensityRefTemps(rec, weathering) == RefTempsOf(get_densities(rec, weathering))

\* the pour point bounds the record states
KnownPourPoints(rec) == {rec.pour_point_min_k, rec.pour_point_max_k} \ {None}

MinTemp(rec, weathering) ==
    IF KnownPourPoints(rec) = {} /\ rec.has_dvis /\ Len(rec.dvis) > 0 THEN 0
    ELSE MinOf(DensityRefTemps(rec, weathering)
               \cup IF KnownPourPoints(rec) # {} THEN KnownPourPoints(rec)
                    ELSE {pour_point(rec).val[2]})

ApiPoint(rec) ==
    [kg_m_3 |-> est_density_from_api(rec.api)[1], ref_temp_k |-> T15C, weathering |-> 0]

\* get_densities returned the culled measurements of the weathering asked
\* for, with the API point if with_point, sorted by reference temperature
DensitiesAre(out, rec, weathering, with_point) ==
    LET measured == at_weathering(culled_densities(rec), weathering)
    IN  /\ SortedByRefTemp(out)
        /\ Len(out) = Len(measured) + (IF with_point THEN 1 ELSE 0)
        /\ \A d \in {measured[i] : i \in 1..Len(measured)} :
               Cardinality({i \in 1..Len(out) : out[i] = d})
                   = Cardinality({i \in 1..Len(measured) : measured[i] = d})
        /\ with_point <=> \E i \in 1..Len(out) : out[i] = ApiPoint(rec)

\* C14 as stated: get_densities(weathering) holds the API-derived point iff
\* weathering = 0, the API is known and no culled density is measured at
\* that weathering; else only the culled measurements of that weathering;
\* the result is sorted by ref_temp_k.
C14_AsStated ==
    Called("get_densities") =>
        DensitiesAre(est_out.val, record, est_args.weathering,
                     /\ est_args.weathering = 0
                     /\ record.api # None
                     /\ at_weathering(culled_densities(record), est_args.weathering) = <<>>)

\* C14 amended: get_densities(weathering) holds the API-derived point iff
\* weathering = 0, the API is known and no culled density of that weathering
\* is measured AT 288.15 K; else only the culled measurements of that
\* weathering; the result is sorted by ref_temp_k.
C14_GetDensities ==
    Called("get_densities") =>
        DensitiesAre(est_out.val, record, est_args.weathering,
                     /\ est_args.weathering = 0
                     /\ record.api # None
                     /\ T15C \notin RefTempsOf(at_weathering(culled_densities(record),
                                                             est_args.weathering)))

\* C14 witness: a record with an API and one density measured at 0 C:
\* get_densities(0.0) has returned the measurement followed by the API point.
C14_Witness ==
    /\ Called("get_densities")
    /\ est_args.weathering = 0
    /\ record.api = 300
    /\ Len(record.densities) = 1
    /\ record.densities[1].ref_temp_k = 27315
    /\ est_out.val = <<record.densities[1], ApiPoint(record)>>

\* C15 as stated: for every density point d of get_densities(w),
\* density_at_temp(d.ref_temp_k, w) returns d.kg_m_3, for a scalar temperature
\* and element by element for a sequence of temperatures.
C15_AsStated ==
    Called("density_at_temp") =>
        LET temps == est_args.target.temps
            densities == get_densities(record, est_args.weathering)
            answer(i) == IF est_args.target.scalar \/ Len(temps) = 1 THEN est_out.val
                         ELSE est_out.val[i]
        IN  \A i \in 1..Len(temps), j \in 1..Len(densities) :
                densities[j].ref_temp_k = temps[i] =>
                    /\ ~Raised(est_out)
                    /\ answer(i) = densities[j].kg_m_3

InertTempK == 101500

\* component_temps(N):
\* np.roll(np.append([1015.0, 1015.0], zip(cut_temps, cut_temps)), -2)
component_temps(rec, N, env) ==
    LET \* zip(cut_temps, cut_temps), flattened by np.append
        zipped(cut_temps) == [i \in 1..(2 * Len(cut_temps)) |-> cut_temps[(i + 1) \div 2]]
        \* np.roll(..., -2): the two leading entries go to the end
        rolled(T) == T \o <<InertTempK, InertTempK>>
        given(values) ==
            IF Raised(values) THEN values ELSE Return(rolled(zipped(values.val.T_i)))
    IN  given(normalized_cut_values(rec, N, env))

\* component_types(N):
\* ['Saturates', 'Aromatics'] * (len(T_i) / 2 - 1) + ['Resins', 'Asphaltenes']
component_types(rec, N, env) ==
    LET types_out(T_i) ==
            [i \in 1..(2 * ((Len(T_i) \div 2) - 1)) |->
                IF i % 2 = 1 THEN "Saturates" ELSE "Aromatics"]
            \o <<"Resins", "Asphaltenes">>
        given(T_i) == IF Raised(T_i) THEN T_i ELSE Return(types_out(T_i.val))
    IN  given(component_temps(rec, N, env))

(***************************************************************************)
(* Specification SpecComponents: component_temps and component_types       *)
(* called on the records of SpecCuts.                                      *)
(***************************************************************************)
\* the numbers of cuts asked for
ComponentNs == {1, 2, 5, DefaultN}

InitComponents ==
    /\ record \in CutRecords
    /\ est_args = Pending
    /\ est_out = Pending
    /\ est_pc = "call"
    /\ IdleBound
    /\ IdleGate
    /\ IdleDrv
    /\ IdleCuts
    /\ IdleOp
    /\ IdleEc

\* what inert_fractions leaves in the record
record_after_inert_fractions(rec) ==
    IF rec.resins # None /\ rec.asphaltenes # None THEN rec
    ELSE record_after_density_at_temp(rec)

CallComponentTemps ==
    /\ est_pc = "call"
    /\ \E N \in ComponentNs, env \in CutEnvs :
          /\ est_args' = [method |-> "component_temps", N |-> N, env |-> env]
          /\ est_out' = component_temps(record, N, env)
    /\ record' = record_after_inert_fractions(record)
    /\ est_pc' = "done"
    /\ UNCHANGED <<vars_bt, vars_gate, vars_drv, vars_cuts, vars_op, vars_ec>>

CallComponentTypes ==
    /\ est_pc = "call"
    /\ \E N \in ComponentNs, env \in CutEnvs :
          /\ est_args' = [method |-> "component_types", N |-> N, env |-> env]
          /\ est_out' = component_types(record, N, env)
    /\ record' = record_after_inert_fractions(record)
    /\ est_pc' = "done"
    /\ UNCHANGED <<vars_bt, vars_gate, vars_drv, vars_cuts, vars_op, vars_ec>>

NextComponents == CallComponentTemps \/ CallComponentTypes

SpecComponents == InitComponents /\ [][NextComponents]_vars

(***************************************************************************)
(* Claims about the components (checked under SpecComponents).             *)
(***************************************************************************)
\* C18 as stated: component_temps(N) has exactly 2N + 2 entries: a Saturates
\* and an Aromatics entry of the same boiling point for each of the N cuts,
\* the pairs in ascending order of boiling point, and 1015.0 K twice at the
\* end; component_types(N) has the same length, 'Saturates' and 'Aromatics'
\* alternating, then 'Resins' and 'Asphaltenes'.
C18_AsStated ==
    /\ (Called("component_temps") /\ ~Raised(est_out)) =>
          LET T == est_out.val
              N == est_args.N
          IN  /\ Len(T) = 2 * N + 2
              /\ \A j \in 1..N : T[2 * j - 1] = T[2 * j]
              /\ \A j \in 1..(N - 1) : T[2 * j] <= T[2 * j + 1]
              /\ T[2 * N + 1] = InertTempK
              /\ T[2 * N + 2] = InertTempK
    /\ (Called("component_types") /\ ~Raised(est_out)) =>
          LET types == est_out.val
              N == est_args.N
          IN  /\ Len(types) = 2 * N + 2
              /\ \A j \in 1..N : types[2 * j - 1] = "Saturates" /\ types[2 * j] = "Aromatics"
              /\ types[2 * N + 1] = "Resins"
              /\ types[2 * N + 2] = "Asphaltenes"

(***************************************************************************)
(* bullwinkle_fraction.                                                    *)
(***************************************************************************)
\* np.log(num / den) in 1/100000, for 1 <= num / den < 128:
\* num / den = 2^k y with 1 <= y < 2, ln = k ln 2 + 2 atanh((y - 1) / (y + 1))
np_log(num, den) ==
    LET k == CHOOSE j \in 0..6 : (2 ^ j) * den <= num /\ num < (2 ^ (j + 1)) * den
        z(y_num, y_den) == ((y_num - y_den) * 100000) \div (y_num + y_den)
        cube(a) == (((a * a) \div 100000) * a) \div 100000
        fifth(a) == (((cube(a) * a) \div 100000) * a) \div 100000
        atanh(a) == a + (cube(a) \div 3) + (fifth(a) \div 5)
    IN  k * 69315 + 2 * atanh(z(num, (2 ^ k) * den))

\* np.log10(num / den) in 1/100000: ln / ln 10
np_log10(num, den) == (np_log(num, den) * 4343) \div 10000

\* np.clip(a, a_min, a_max)
np_clip(a, a_min, a_max) == IF a < a_min THEN a_min ELSE IF a > a_max THEN a_max ELSE a

\* fractions of bullwinkle_fraction are in 1/BullUnit
BullUnit == 10000

\* _adios2_new_bull_calc(bullwinkle_fraction); oil_api in tenths
adios2_new_bull_calc(bullwinkle_fraction, oil_api) ==
    LET \* t_g = 1356.7 - 247.36 * np.log(oil_api), in hundredths of a kelvin
        t_g == 135670 - ((24736 * (np_log(oil_api, 10) \div 10)) \div 10000)
        \* t_bp = 532.98 - 3.1295 * oil_api, in hundredths of a kelvin
        t_bp == 53298 - ((31295 * oil_api) \div 1000)
        \* bull_adios1 = (483.0 - t_bp) / t_g
        bull_adios1 == ((48300 - t_bp) * BullUnit) \div t_g
    IN  \* 0.5 * (bullwinkle_fraction + np.clip(bull_adios1, 0.0, 0.4))
        (bullwinkle_fraction + np_clip(bull_adios1, 0, 4000)) \div 2

\* bullwinkle_fraction() = _adios2_bullwinkle_fraction(), in 1/BullUnit;
\* nickel and vanadium in ppm, emuls_constant_max in 1/BullUnit
bullwinkle_fraction(rec) ==
    LET Ni == IF rec.nickel # None THEN rec.nickel ELSE 0
        Va == IF rec.vanadium # None THEN rec.vanadium ELSE 0
        \* 0.20219 - 0.168 * np.log10(f_asph), f_asph in 1/FracUnit
        from_asph(f_asph) == 2022 + ((168 * np_log10(FracUnit, f_asph)) \div 10000)
        \* -1.038 - 0.78935 * np.log10(1.0 / oil_api)
        from_api(oil_api) == ((7894 * np_log10(oil_api, 10)) \div 100000) - 10380
        crude(f_asph, oil_api) ==
            IF Ni > 0 /\ Va > 0 /\ Ni + Va > 15 THEN 0
            ELSE IF f_asph > 0 THEN np_clip(from_asph(f_asph), 0, 3030)
            ELSE IF oil_api < 260 THEN 800
            ELSE IF oil_api > 500 THEN 3030
            ELSE from_api(oil_api)
        given(inert, oil_api) ==
            IF Raised(inert) THEN inert
            ELSE IF Raised(oil_api) THEN oil_api
            ELSE Return(adios2_new_bull_calc(crude(inert.val[2], oil_api.val),
                                             oil_api.val))
    IN  IF rec.product_type = "Refined" THEN Return(BullUnit)
        ELSE IF rec.emuls_constant_max # None THEN Return(rec.emuls_constant_max)
        ELSE given(inert_fractions(rec), get_api(rec))

(***************************************************************************)
(* Specification SpecBullwinkle: bullwinkle_fraction called on a record    *)
(* that passed has_product_type.                                           *)
(***************************************************************************)
BullwinkleRecords ==
    {r \in [adios_oil_id : {7},
            product_type : {"Crude", "Refined", "refined", "REFINED", "Bunker"},
            api : {200, 300, 550},
            densities : {<<GateDensity>>},
            kvis : {<<GateKvis>>},
            dvis : {<<>>},
            has_dvis : {TRUE},
            cuts : {<<>>},
            resins : {0},
            asphaltenes : {None, 0, 500},
            pour_point_min_k : {None},
            pour_point_max_k : {26000},
            nickel : {None, 10},
            vanadium : {None, 10},
            emuls_constant_max : {None, 5000}] :
        has_product_type(r)}

InitBullwinkle ==
    /\ record \in BullwinkleRecords
    /\ est_args = Pending
    /\ est_out = Pending
    /\ est_pc = "call"
    /\ IdleBound
    /\ IdleGate
    /\ IdleDrv
    /\ IdleCuts
    /\ IdleOp
    /\ IdleEc

CallBullwinkleFraction ==
    /\ est_pc = "call"
    /\ est_args' = [method |-> "bullwinkle_fraction"]
    /\ est_out' = bullwinkle_fraction(record)
    /\ record' = IF record.product_type = "Refined" \/ record.emuls_constant_max # None
                 THEN record
                 ELSE record_after_inert_fractions(record)
    /\ est_pc' = "done"
    /\ UNCHANGED <<vars_bt, vars_gate, vars_drv, vars_cuts, vars_op, vars_ec>>

NextBullwinkle == CallBullwinkleFraction

SpecBullwinkle == InitBullwinkle /\ [][NextBullwinkle]_vars

(***************************************************************************)
(* Claims about bullwinkle_fraction (checked under SpecBullwinkle).        *)
(***************************************************************************)
\* C19 as stated: bullwinkle_fraction returns exactly 1.0 for every refined
\* record that has_product_type admits, whatever its asphaltene fraction,
\* API, nickel and vanadium content and emuls_constant_max, the blend of
\* the 'new bull calc' not being applied.
C19_AsStated ==
    (Called("bullwinkle_fraction") /\ Lower(record.product_type) = "refined") =>
        est_out = Return(BullUnit)

(***************************************************************************)
(* scoring.py: ImportedRecordWithScore.                                    *)
(***************************************************************************)
\* the score 1.0; 2^11 * 15, so that the sub-scores of the model are whole
ScoreUnit == 30720

\* 0.8, the score of a cut with a liquid temperature only
LiquidOnly == 24576

\* "We have a maximum number of 4 density field sets", "a minimum number of
\* 4 viscosity field sets"
MinFieldSets == 4

\* "We would like a minimum number of 10 distillation cuts"
MinCutSets == 10

\* aggregate_score(Q_i, w_i): np.sum(w_i * Q_i) / np.sum(w_i)
aggregate_score(Q_i, w_i) ==
    SumSeq([i \in 1..Len(Q_i) |-> w_i[i] * Q_i[i]]) \div SumSeq(w_i)

\* w_i = np.ones(Q_i.shape)
np_ones(Q_i) == [i \in 1..Len(Q_i) |-> 1]

\* w_i = 1.0 / (2.0 ** (np.arange(len(scores)) + 1)); w_i[-1] = w_i[-2],
\* every weight multiplied by 2^len(scores)
halving_weights(scores) ==
    LET n == Len(scores)
    IN  [i \in 1..n |-> IF i = n THEN 2 ELSE 2 ^ (n - i)]

\* if len(scores) < least: scores += [0.0] * (least - len(scores))
padded(scores, least) ==
    IF Len(scores) < least THEN scores \o [i \in 1..(least - Len(scores)) |-> 0]
    ELSE scores

\* 1.0 if every value is not None else 0.0
score_if(present) == IF present THEN ScoreUnit ELSE 0

score_api(rec) == score_if(rec.api # None)

\* score_densities(); np.isclose(None, ...) raises TypeError
score_densities(rec) ==
    LET score_density_rec(d) == score_if(d.kg_m_3 # None /\ d.ref_temp_k # None)
        scores == [i \in 1..Len(rec.densities) |-> score_density_rec(rec.densities[i])]
        \* np.isclose(d.ref_temp_k, [288.0, 288.15]).any()
        close(d) == d.ref_temp_k \in {28800, T15C}
        with_api == IF \E i \in 1..Len(rec.densities) : close(rec.densities[i])
                    THEN scores
                    ELSE Append(scores, score_api(rec))
        aggregated(all) == aggregate_score(all, halving_weights(all))
    IN  IF \E i \in 1..Len(rec.densities) : rec.densities[i].ref_temp_k = None
        THEN Raise("TypeError")
        ELSE Return(aggregated(padded(with_api, MinFieldSets)))

\* score_viscosities()
score_viscosities(rec) ==
    LET both == rec.kvis \o rec.dvis
        \* if v.ref_temp_k not in all_temps: the first of each temperature
        all_viscosities ==
            FilterSeq(both, {i \in 1..Len(both) :
                                \A j \in 1..(i - 1) : both[j].ref_temp_k # both[i].ref_temp_k})
        \* value = viscosity_rec.m_2_s, or kg_ms on AttributeError
        value(v) == IF "m_2_s" \in DOMAIN v THEN v.m_2_s ELSE v.kg_ms
        score_single_viscosity(v) == score_if(value(v) # None /\ v.ref_temp_k # None)
        aggregated(all) == aggregate_score(all, halving_weights(all))
    IN  aggregated(padded([i \in 1..Len(all_viscosities) |->
                              score_single_viscosity(all_viscosities[i])],
                          MinFieldSets))

\* score_sara_fractions()
score_sara_fractions(rec) ==
    LET scores == <<score_if(rec.saturates # None), score_if(rec.aromatics # None),
                    score_if(rec.resins # None), score_if(rec.asphaltenes # None)>>
    IN  aggregate_score(scores, np_ones(scores))

\* score_cuts()
score_cuts(rec) ==
    LET score_single_cut(c) ==
            IF c.fraction # None
            THEN IF c.vapor_temp_k # None THEN ScoreUnit
                 ELSE IF c.liquid_temp_k # None THEN LiquidOnly
                 ELSE 0
            ELSE 0
        aggregated(all) == aggregate_score(all, halving_weights(all))
    IN  aggregated(padded([i \in 1..Len(rec.cuts) |-> score_single_cut(rec.cuts[i])],
                          MinCutSets))

\* score_interfacial_tensions()
score_interfacial_tensions(rec) ==
    LET scores ==
            <<score_if(rec.oil_water_interfacial_tension_n_m # None
                       /\ rec.oil_water_interfacial_tension_ref_temp_k # None),
              score_if(rec.oil_seawater_interfacial_tension_n_m # None
                       /\ rec.oil_seawater_interfacial_tension_ref_temp_k # None)>>
    IN  aggregate_score(scores, np_ones(scores))

\* score_pour_point(): w_i = [2.0, 1.0]
score_pour_point(rec) ==
    aggregate_score(<<score_if(rec.pour_point_max_k # None),
                      score_if(rec.pour_point_min_k # None)>>, <<2, 1>>)

\* score_demographics(): fields = ('reference',)
score_demographics(rec) ==
    aggregate_score(<<score_if(rec.reference # NoneStr)>>, <<1>>)

\* score_flash_point()
score_flash_point(rec) ==
    score_if(rec.flash_point_min_k # None \/ rec.flash_point_max_k # None)

\* score_emulsion_constants(): w_i = [2.0, 3.0]
score_emulsion_constants(rec) ==
    aggregate_score(<<score_if(rec.water_content_emulsion # None),
                      score_if(rec.emuls_constant_min # None)>>, <<2, 3>>)

\* the weights of score(), in its order
ScoreWeights == <<5, 5, 5, 10, 3, 2, 1, 1, 1>>

\* the nine sub-scores in the order of score(); score_densities may raise
sub_scores(rec) ==
    <<score_densities(rec),
      Return(score_viscosities(rec)),
      Return(score_sara_fractions(rec)),
      Return(score_cuts(rec)),
      Return(score_interfacial_tensions(rec)),
      Return(score_pour_point(rec)),
      Return(score_demographics(rec)),
      Return(score_flash_point(rec)),
      Return(score_emulsion_constants(rec))>>

\* score()
score(rec) ==
    LET of(subs) ==
            IF \E i \in 1..Len(subs) : Raised(subs[i])
            THEN subs[CHOOSE i \in 1..Len(subs) :
                          Raised(subs[i]) /\ \A j \in 1..(i - 1) : ~Raised(subs[j])]
            ELSE Return(aggregate_score([i \in 1..Len(subs) |-> subs[i].val], ScoreWeights))
    IN  of(sub_scores(rec))

(***************************************************************************)
(* Specification SpecScore: score() and its sub-scores called on a record. *)
(***************************************************************************)
ScoreDensities ==
    LET d(rho, t) == [kg_m_3 |-> rho, ref_temp_k |-> t, weathering |-> None]
    IN  {<<>>,
         <<d(876, T15C)>>,
         <<d(890, 27315)>>,
         <<d(None, T15C)>>,
         <<d(876, None)>>,
         <<d(None, None), d(876, T15C)>>,
         [i \in 1..(MinFieldSets + 1) |-> d(900 - i, 27000 + 500 * i)]}

ScoreCuts ==
    LET c(vapor, liquid, fraction) ==
            [vapor_temp_k |-> vapor, liquid_temp_k |-> liquid, fraction |-> fraction]
    IN  {<<>>,
         <<c(300, None, 100)>>,
         <<c(None, 290, 100), c(None, None, 200), c(400, 390, None)>>,
         [i \in 1..(MinCutSets + 1) |-> c(300 + 20 * i, None, 50 * i)]}

\* the fields scored by their presence alone: none, some, all of them
ScoreProfiles ==
    LET profile(sara, tension, point, reference, emulsion) ==
            [saturates |-> sara, aromatics |-> sara, resins |-> point, asphaltenes |-> sara,
             oil_water_interfacial_tension_n_m |-> tension,
             oil_water_interfacial_tension_ref_temp_k |-> point,
             oil_seawater_interfacial_tension_n_m |-> tension,
             oil_seawater_interfacial_tension_ref_temp_k |-> tension,
             pour_point_min_k |-> emulsion,
             pour_point_max_k |-> point,
             reference |-> reference,
             flash_point_min_k |-> None,
             flash_point_max_k |-> point,
             water_content_emulsion |-> emulsion,
             emuls_constant_min |-> sara]
    IN  {profile(None, None, None, NoneStr, None),
         profile(None, 30, T15C, "Env. Canada", None),
         profile(250, None, T15C, NoneStr, 900),
         profile(250, 30, T15C, "Env. Canada", 900)}

ScoreRecords ==
    {measured @@ present :
        measured \in [api : {None, 300},
                      densities : ScoreDensities,
                      kvis : {<<>>, <<GateKvis>>},
                      dvis : {<<>>, <<GateDvis, [kg_ms |-> None, ref_temp_k |-> 27315,
                                                   weathering |-> None]>>},
                      cuts : ScoreCuts],
        present \in ScoreProfiles}

SubScoreNames ==
    {"score_densities", "score_viscosities", "score_sara_fractions", "score_cuts",
     "score_interfacial_tensions", "score_pour_point", "score_demographics",
     "score_flash_point", "score_emulsion_constants"}

\* the position of a sub-score in score()
SubScoreIndex(name) ==
    CASE name = "score_densities" -> 1
      [] name = "score_viscosities" -> 2
      [] name = "score_sara_fractions" -> 3
      [] name = "score_cuts" -> 4
      [] name = "score_interfacial_tensions" -> 5
      [] name = "score_pour_point" -> 6
      [] name = "score_demographics" -> 7
      [] name = "score_flash_point" -> 8
      [] name = "score_emulsion_constants" -> 9

InitScore ==
    /\ record \in ScoreRecords
    /\ est_args = Pending
    /\ est_out = Pending
    /\ est_pc = "call"
    /\ IdleBound
    /\ IdleGate
    /\ IdleDrv
    /\ IdleCuts
    /\ IdleOp
    /\ IdleEc

CallScore ==
    /\ est_pc = "call"
    /\ est_args' = [method |-> "score"]
    /\ est_out' = score(record)
    /\ est_pc' = "done"
    /\ UNCHANGED <<record, vars_bt, vars_gate, vars_drv, vars_cuts, vars_op, vars_ec>>

CallSubScore ==
    /\ est_pc = "call"
    /\ \E name \in SubScoreNames :
          /\ est_args' = [method |-> name]
          /\ est_out' = sub_scores(record)[SubScoreIndex(name)]
    /\ est_pc' = "done"
    /\ UNCHANGED <<record, vars_bt, vars_gate, vars_drv, vars_cuts, vars_op, vars_ec>>

NextScore == CallScore \/ CallSubScore

SpecScore == InitScore /\ [][NextScore]_vars

(***************************************************************************)
(* Claims about the score (checked under SpecScore).                       *)
(***************************************************************************)
\* C20 as stated: score() returns a value in [0, 1] for every record,
\* whatever the numbers of densities, viscosities and cuts and whichever of
\* their fields are null; each of the nine sub-scores is in [0, 1] and the
\* result is their mean weighted by 5, 5, 5, 10, 3, 2, 1, 1, 1.
C20_AsStated ==
    /\ (est_pc = "done" /\ est_args.method \in SubScoreNames) =>
          /\ ~Raised(est_out)
          /\ est_out.val \in 0..ScoreUnit
    /\ Called("score") =>
          /\ ~Raised(est_out)
          /\ est_out.val \in 0..ScoreUnit
          /\ est_out.val = SumSeq([i \in 1..9 |-> ScoreWeights[i] * sub_scores(record)[i].val])
                                \div 33

(***************************************************************************)
(* oil_props.py: OilProps.                                                 *)
(***************************************************************************)
\* raise ValueError(msg)
ValueErrorOf(msg) == [exc |-> "ValueError", val |-> None, message |-> msg]

\* sorted by ref_temp_k, grouped by ref_temp_k, each group sorted by
\* sara_type in reverse: Saturates, Resins, Asphaltenes, Aromatics
sorted_sara(table) ==
    LET reversed(sara_type) ==
            CASE sara_type = "Saturates" -> 0
              [] sara_type = "Resins" -> 1
              [] sara_type = "Asphaltenes" -> 2
              [] sara_type = "Aromatics" -> 3
    IN  SortedByKey(table, [i \in 1..Len(table) |->
                               4 * table[i].ref_temp_k + reversed(table[i].sara_type)])

\* _init_sara(): the items of self._sara, or what is raised.  Fractions are
\* in 1/FracUnit; an item is (type, boiling_point, fraction, density, mol_wt).
init_sara(rec) ==
    LET all_comp == sorted_sara(rec.sara_fractions)
        all_dens == sorted_sara(rec.sara_densities)
        all_mw == sorted_sara(rec.molecular_weights)
        \* zip_longest: as many rows as the longest table, None where one ends
        rows == IF Len(all_comp) >= Len(all_dens) /\ Len(all_comp) >= Len(all_mw)
                THEN Len(all_comp)
                ELSE IF Len(all_dens) >= Len(all_mw) THEN Len(all_dens) ELSE Len(all_mw)
        \* comp.ref_temp_k != comp.ref_temp_k or comp.sara_type != comp.sara_type
        mismatch(comp) ==
            comp.ref_temp_k # comp.ref_temp_k \/ comp.sara_type # comp.sara_type
        summed(items) == SumSeq([j \in 1..Len(items) |-> items[j][3]])
        RECURSIVE loop(_, _, _)
        \* mw keeps the value of the previous pass; None while it is unbound
        loop(i, items, mw) ==
            IF i > rows
            THEN IF summed(items) = FracUnit  \* np.isclose(sum, 1.0)
                 THEN Return(items)
                 ELSE ValueErrorOf("mass fraction sum")
            ELSE IF i > Len(all_comp) THEN Raise("AttributeError")  \* None.ref_temp_k
            ELSE IF mismatch(all_comp[i])
            THEN ValueErrorOf("mismatch in sara_fractions and sara_densities tables")
            ELSE IF all_comp[i].fraction > 0
            THEN LET new_mw ==
                         IF i <= Len(all_mw) THEN all_mw[i].g_mol
                         ELSE IF all_comp[i].sara_type = "Resins" THEN 800
                         ELSE IF all_comp[i].sara_type = "Asphaltenes" THEN 1000
                         ELSE mw
                 IN  IF i > Len(all_dens) THEN Raise("AttributeError")  \* None.density
                     ELSE IF new_mw = None THEN Raise("UnboundLocalError")
                     ELSE loop(i + 1,
                               Append(items, <<all_comp[i].sara_type, all_comp[i].ref_temp_k,
                                               all_comp[i].fraction, all_dens[i].density,
                                               new_mw>>),
                               new_mw)
            ELSE loop(i + 1, items, mw)
    IN  loop(1, <<>>, None)

\* Objects are told apart by a name: "record", "op" and "op._sara" for the
\* original, "c_op" and "c_op._sara" for the OilProps made by __deepcopy__,
\* "float" for a value handed in by the user, "deepcopy" for a copied array.
\* an object: its identity and its value; None is one object
Obj(ref, value) == [ref |-> ref, val |-> value]
NoneObj == Obj("None", None)

\* OilProps(oil_obj).__dict__
OilPropsOf(self_ref, sara_ref, items) ==
    [ref |-> self_ref,
     record |-> Obj("record", "record"),
     _sara |-> Obj(sara_ref, items),
     _bullwinkle |-> NoneObj,
     _bulltime |-> NoneObj]

\* _compare__dict(other): every value of __dict__ is equal
compare_dict(self, other) ==
    /\ self.record.ref = other.record.ref
    /\ self._sara.val = other._sara.val        \* not np.any(val != o_val)
    /\ self._bullwinkle.val = other._bullwinkle.val
    /\ self._bulltime.val = other._bulltime.val

\* __eq__(other), both of type OilProps; tojson_raises: what tojson() of
\* the record does
oil_props_eq(self, other, tojson_raises) ==
    IF compare_dict(self, other) THEN TRUE
    ELSE IF tojson_raises THEN FALSE  \* except Exception: return False
    ELSE self.record.ref = other.record.ref  \* self.tojson() == other.tojson()

\* copy.deepcopy(value): a float is returned as it is, an array is copied
deepcopy_of(value) ==
    IF value.ref \in {"None", "float"} THEN value
    ELSE Obj("deepcopy", value.val)

\* __deepcopy__(memo)
oil_props_deepcopy(self, tojson_raises) ==
    LET c_op == OilPropsOf("c_op", "c_op._sara", self._sara.val)
        \* if getattr(self, attr) != getattr(c_op, attr): of two arrays of
        \* more than one item the truth value is ambiguous
        copied_attrs ==
            [c_op EXCEPT !._bullwinkle =
                             IF self._bullwinkle.val # c_op._bullwinkle.val
                             THEN deepcopy_of(self._bullwinkle) ELSE @,
                         !._bulltime =
                             IF self._bulltime.val # c_op._bulltime.val
                             THEN deepcopy_of(self._bulltime) ELSE @]
    IN  IF oil_props_eq(c_op, self, tojson_raises) THEN Return(c_op)
        ELSE IF Len(self._sara.val) > 1 THEN Raise("ValueError")
        ELSE Return(copied_attrs)

(***************************************************************************)
(* Specification SpecOilProps: an OilProps is built from a record, the     *)
(* user may set bullwinkle and bulltime, and the OilProps is deep-copied.  *)
(***************************************************************************)
SaraFractions ==
    LET f(sara_type, t, fraction) ==
            [sara_type |-> sara_type, ref_temp_k |-> t, fraction |-> fraction]
    IN  {<<f("Saturates", 400, 300), f("Aromatics", 400, 200),
           f("Resins", 1015, 300), f("Asphaltenes", 1015, 200)>>,
         <<f("Resins", 1015, 300), f("Aromatics", 400, 200),
           f("Asphaltenes", 1015, 200), f("Saturates", 400, 300)>>,
         <<f("Saturates", 400, 1000)>>,
         <<f("Saturates", 400, 500), f("Aromatics", 400, 0), f("Resins", 1015, 500)>>,
         <<f("Saturates", 400, 300)>>}

SaraDensities ==
    LET d(sara_type, t, density) ==
            [sara_type |-> sara_type, ref_temp_k |-> t, density |-> density]
    IN  {<<d("Saturates", 400, 750), d("Aromatics", 400, 900),
           d("Resins", 1015, 1100), d("Asphaltenes", 1015, 1100)>>,
         <<d("Saturates", 400, 750), d("Aromatics", 400, 900), d("Resins", 1015, 1100)>>,
         <<d("Saturates", 450, 750), d("Aromatics", 450, 900),
           d("Resins", 1015, 1100), d("Asphaltenes", 1015, 1100)>>,
         <<d("Aromatics", 400, 900)>>,
         <<d("Saturates", 400, 750)>>,
         <<>>}

SaraMolecularWeights ==
    LET w(sara_type, t, g_mol) == [sara_type |-> sara_type, ref_temp_k |-> t, g_mol |-> g_mol]
    IN  {<<w("Saturates", 400, 150), w("Aromatics", 400, 140)>>,
         <<w("Saturates", 400, 150)>>,
         <<>>}

\* what the user sets bullwinkle or bulltime to, in thousandths
UserValues == {300, 3600000}

InitOilProps ==
    /\ op_record \in [sara_fractions : SaraFractions,
                      sara_densities : SaraDensities,
                      molecular_weights : SaraMolecularWeights]
    /\ op = Pending
    /\ dcop = Pending
    /\ op_pc = "call"
    /\ IdleBound
    /\ IdleEst
    /\ IdleGate
    /\ IdleDrv
    /\ IdleCuts
    /\ IdleEc

\* op = OilProps(oil_obj): __init__ runs _init_sara
CallOilProps ==
    /\ op_pc = "call"
    /\ LET built(sara) ==
               IF Raised(sara) THEN sara
               ELSE Return(OilPropsOf("op", "op._sara", sara.val))
       IN  op' = built(init_sara(op_record))
    /\ op_pc' = "built"
    /\ UNCHANGED <<op_record, dcop, vars_bt, vars_est, vars_gate, vars_drv, vars_cuts, vars_ec>>

\* op.bullwinkle = value
SetBullwinkle ==
    /\ op_pc = "built"
    /\ ~Raised(op)
    /\ op.val._bullwinkle = NoneObj
    /\ \E value \in UserValues :
          op' = [op EXCEPT !.val._bullwinkle = Obj("float", value)]
    /\ UNCHANGED <<op_record, dcop, op_pc, vars_bt, vars_est, vars_gate, vars_drv, vars_cuts,
                   vars_ec>>

\* op.bulltime = value
SetBulltime ==
    /\ op_pc = "built"
    /\ ~Raised(op)
    /\ op.val._bulltime = NoneObj
    /\ \E value \in UserValues :
          op' = [op EXCEPT !.val._bulltime = Obj("float", value)]
    /\ UNCHANGED <<op_record, dcop, op_pc, vars_bt, vars_est, vars_gate, vars_drv, vars_cuts,
                   vars_ec>>

\* dcop = copy.deepcopy(op)
CallDeepcopy ==
    /\ op_pc = "built"
    /\ ~Raised(op)
    /\ \E tojson_raises \in BOOLEAN :
          dcop' = oil_props_deepcopy(op.val, tojson_raises)
    /\ op_pc' = "copied"
    /\ UNCHANGED <<op_record, op, vars_bt, vars_est, vars_gate, vars_drv, vars_cuts, vars_ec>>

NextOilProps == CallOilProps \/ SetBullwinkle \/ SetBulltime \/ CallDeepcopy

SpecOilProps == InitOilProps /\ [][NextOilProps]_vars

(***************************************************************************)
(* Claims about OilProps (checked under SpecOilProps).                     *)
(***************************************************************************)
\* the sorted tables of fractions and densities correspond entry for entry
TablesCorrespond(rec) ==
    LET all_comp == sorted_sara(rec.sara_fractions)
        all_dens == sorted_sara(rec.sara_densities)
    IN  /\ Len(all_comp) = Len(all_dens)
        /\ \A i \in 1..Len(all_comp) :
              /\ all_comp[i].sara_type = all_dens[i].sara_type
              /\ all_comp[i].ref_temp_k = all_dens[i].ref_temp_k

\* C21 as stated: whenever the sara_fractions and sara_densities tables of
\* the record do not correspond entry for entry, the construction of
\* OilProps raises ValueError('mismatch in sara_fractions and sara_densities
\* tables') and builds no component array.
C21_AsStated ==
    (op_pc # "call" /\ ~TablesCorrespond(op_record)) =>
        op = ValueErrorOf("mismatch in sara_fractions and sara_densities tables")

\* C22 as stated: copy.deepcopy of an OilProps returns a distinct object
\* that compares equal to the original and shares its record by reference;
\* every instance attribute equals the original's, bullwinkle and bulltime
\* values set by the user included, and every attribute other than the
\* record and the None values is a distinct object.
C22_AsStated ==
    op_pc = "copied" =>
        /\ ~Raised(dcop)
        /\ dcop.val.ref # op.val.ref
        /\ \A tojson_raises \in BOOLEAN : oil_props_eq(op.val, dcop.val, tojson_raises)
        /\ dcop.val.record.ref = op.val.record.ref
        /\ dcop.val._sara.val = op.val._sara.val
        /\ dcop.val._bullwinkle.val = op.val._bullwinkle.val
        /\ dcop.val._bulltime.val = op.val._bulltime.val
        /\ dcop.val._sara.ref # op.val._sara.ref
        /\ op.val._bullwinkle # NoneObj => dcop.val._bullwinkle.ref # op.val._bullwinkle.ref
        /\ op.val._bulltime # NoneObj => dcop.val._bulltime.ref # op.val._bulltime.ref

(***************************************************************************)
(* documentation/environment_canada/ec_oil_misc.py.                        *)
(* A cell is [python, kind, text, number]: the major version of the        *)
(* interpreter, the type of the cell content ("none", "number", "str",     *)
(* "unicode"), its characters if it is text, its value (in hundredths of   *)
(* a degree Celsius) if it is a number.                                    *)
(***************************************************************************)
\* 273.15, in hundredths of a kelvin
ZeroCelsiusK == 27315

\* the longest text of a cell
MaxCellLen == 3

\* float(chars) for a text of digits with an optional sign, in hundredths
py_float(chars) ==
    LET digit(c) == CASE c = "1" -> 1 [] c = "5" -> 5 [] OTHER -> None
        RECURSIVE number(_, _)
        number(rest, acc) ==
            IF rest = <<>> THEN Return(100 * acc)
            ELSE IF digit(Head(rest)) = None THEN Raise("ValueError")
            ELSE number(Tail(rest), 10 * acc + digit(Head(rest)))
        negated(r) == IF Raised(r) THEN r ELSE Return(0 - r.val)
    IN  IF chars = <<>> THEN Raise("ValueError")
        ELSE IF Head(chars) = "-"
        THEN IF Tail(chars) = <<>> THEN Raise("ValueError")
             ELSE negated(number(Tail(chars), 0))
        ELSE number(chars, 0)

\* get_op_and_value(value_in): Return([op, value]) or what is raised.  op is
\* [bytes, char]: value_in[0].encode('utf8') is a str under Python 2 and a
\* bytes object under Python 3; char is NoneStr for op = None.
get_op_and_value(value_in) ==
    LET no_op == [bytes |-> FALSE, char |-> NoneStr]
        encoded(c) == [bytes |-> value_in.python = 3, char |-> c]
        with_value(op_char, value) ==
            IF Raised(value) THEN value ELSE Return([op |-> op_char, value |-> value.val])
    IN  IF value_in.kind = "number"  \* isinstance(value_in, (int, float))
        THEN Return([op |-> no_op, value |-> value_in.number])
        ELSE IF value_in.kind = "str"  \* isinstance(value_in, str)
        THEN IF value_in.text = <<>> THEN Raise("IndexError")  \* value_in[0]
             ELSE with_value(encoded(Head(value_in.text)), py_float(Tail(value_in.text)))
        ELSE Return([op |-> no_op, value |-> None])

\* op == '<', op == '>': a bytes object equals no str
op_equals(op_char, char) == ~op_char.bytes /\ op_char.char = char

\* celcius_to_kelvin(temp_c)
celcius_to_kelvin(temp_c) == IF temp_c # None THEN temp_c + ZeroCelsiusK ELSE temp_c

\* get_min_temp(temp_c)
get_min_temp(temp_c) ==
    LET given(r) ==
            IF Raised(r) THEN r
            ELSE Return(celcius_to_kelvin(IF op_equals(r.val.op, "<") THEN None
                                          ELSE r.val.value))
    IN  given(get_op_and_value(temp_c))

\* get_max_temp(temp_c)
get_max_temp(temp_c) ==
    LET given(r) ==
            IF Raised(r) THEN r
            ELSE Return(celcius_to_kelvin(IF op_equals(r.val.op, ">") THEN None
                                          ELSE r.val.value))
    IN  given(get_op_and_value(temp_c))

(***************************************************************************)
(* Specification SpecEc: the minimum and maximum temperature of one cell,  *)
(* as build_pour_point_kwargs and build_flash_point_kwargs take them.      *)
(***************************************************************************)
CellChars == {"<", ">", "-", "1", "5"}

\* the cells: empty, a number, or a text; Python 3 has one type of text
Cells ==
    LET texts == UNION {[1..n -> CellChars] : n \in 0..MaxCellLen}
    IN  {c \in [python : {2, 3},
                kind : {"none", "number", "str", "unicode"},
                text : texts,
                number : {0 - 500, 0, 1250}] :
            /\ c.kind = "unicode" => c.python = 2
            /\ c.kind \in {"none", "number"} => c.text = <<>>
            /\ c.kind # "number" => c.number = 0}

InitEc ==
    /\ cell \in Cells
    /\ temps_out = Pending
    /\ ec_pc = "call"
    /\ IdleBound
    /\ IdleEst
    /\ IdleGate
    /\ IdleDrv
    /\ IdleCuts
    /\ IdleOp

\* min_temp_k = get_min_temp(cell); max_temp_k = get_max_temp(cell)
CallGetTemps ==
    /\ ec_pc = "call"
    /\ LET both(min_temp_k, max_temp_k) ==
               IF Raised(min_temp_k) THEN min_temp_k
               ELSE IF Raised(max_temp_k) THEN max_temp_k
               ELSE Return(<<min_temp_k.val, max_temp_k.val>>)
       IN  temps_out' = both(get_min_temp(cell), get_max_temp(cell))
    /\ ec_pc' = "done"
    /\ UNCHANGED <<cell, vars_bt, vars_est, vars_gate, vars_drv, vars_cuts, vars_op>>

NextEc == CallGetTemps

SpecEc == InitEc /\ [][NextEc]_vars

(***************************************************************************)
(* Claims about the cells (checked under SpecEc).                          *)
(***************************************************************************)
\* the cell is the text of an operator followed by a number
OperatorCell(char) ==
    /\ cell.kind \in {"str", "unicode"}
    /\ cell.text # <<>>
    /\ Head(cell.text) = char
    /\ ~Raised(py_float(Tail(cell.text)))

\* the number written in the cell after its operator, in kelvin
WrittenKelvin == py_float(Tail(cell.text)).val + ZeroCelsiusK

\* C23 as stated: a value v with no preceding operator gives min = max =
\* v + 273.15; '>v' gives min = v + 273.15 and max = None; '<v' gives
\* min = None and max = v + 273.15; an empty cell gives min = max = None;
\* whenever both are not None, min <= max.
C23_AsStated ==
    ec_pc = "done" =>
        /\ cell.kind = "number" =>
              temps_out = Return(<<cell.number + ZeroCelsiusK, cell.number + ZeroCelsiusK>>)
        /\ OperatorCell(">") => temps_out = Return(<<WrittenKelvin, None>>)
        /\ OperatorCell("<") => temps_out = Return(<<None, WrittenKelvin>>)
        /\ cell.kind = "none" => temps_out = Return(<<None, None>>)
        /\ (~Raised(temps_out) /\ temps_out.val[1] # None /\ temps_out.val[2] # None) =>
              temps_out.val[1] <= temps_out.val[2]

(***************************************************************************)
(* Specification SpecVerify: the loop of component_mass_fractions, one     *)
(* call of verify_cut_fractional_masses per step.  get_cut_temps_fmasses   *)
(* returns equal masses for the cuts (np.linspace), the first one carrying *)
(* the masses of the cuts dropped for a temperature not above 0 K; the     *)
(* masses are all 0.0 for a record whose f_res + f_asph is 1.0.            *)
(***************************************************************************)
\* the cuts in flight
MaxCuts == 3

\* fmass_i, in 1/(FracUnit * Micro)
VerifyMasses ==
    {[i \in 1..MaxCuts |-> IF i = 1 THEN dropped * each ELSE each] :
        dropped \in {1, 3}, each \in {0, 10000, 25001}}

\* T_i, centi-kelvin
VerifyTemps ==
    {[i \in 1..MaxCuts |-> base + (i - 1) * step] :
        base \in {20000, 40000, 45000}, step \in {0, 5000, 10000}}

\* the correlations of est
VerifyEnvs == [sat_share : {0, 400, 1000}, mw_sat : {5}, mw_arom : {4, 5}]

\* fmass_i = ...; f_sat_i = fmass_i / 2.0; f_arom_i = fmass_i / 2.0
InitVerify ==
    /\ record = None
    /\ \E fmass_i \in VerifyMasses, T_i \in VerifyTemps, env \in VerifyEnvs :
           /\ est_args = [method |-> "component_mass_fractions",
                          fmass_i |-> fmass_i, T_i |-> T_i, env |-> env,
                          calls |-> 0, entry |-> halves(fmass_i)]
           /\ est_out = Return(halves(fmass_i))
    /\ est_pc = "loop"
    /\ IdleBound
    /\ IdleGate
    /\ IdleDrv
    /\ IdleCuts
    /\ IdleOp
    /\ IdleEc

\* for _i in range(20):
\*     f_sat_i, f_arom_i = self.verify_cut_fractional_masses(fmass_i, T_i,
\*                                                           f_sat_i, f_arom_i)
\* entry keeps the pair the call was given
CallVerifyCutFractionalMasses ==
    /\ est_pc = "loop"
    /\ ~Raised(est_out)
    /\ est_args.calls < Iterations
    /\ est_out' = verify_cut_fractional_masses(est_args.fmass_i, est_args.T_i,
                                               est_out.val[1], est_out.val[2],
                                               est_args.env)
    /\ est_args' = [est_args EXCEPT !.calls = @ + 1, !.entry = est_out.val]
    /\ UNCHANGED <<record, est_pc>>
    /\ UNCHANGED <<vars_bt, vars_gate, vars_drv, vars_cuts, vars_op, vars_ec>>

\* the AssertionError of a call leaves component_mass_fractions
AssertionEscapes ==
    /\ est_pc = "loop"
    /\ Raised(est_out)
    /\ est_pc' = "done"
    /\ UNCHANGED <<record, est_args, est_out>>
    /\ UNCHANGED <<vars_bt, vars_gate, vars_drv, vars_cuts, vars_op, vars_ec>>

\* range(20) is exhausted: the pairs are returned
LoopEnds ==
    /\ est_pc = "loop"
    /\ ~Raised(est_out)
    /\ est_args.calls = Iterations
    /\ est_pc' = "done"
    /\ UNCHANGED <<record, est_args, est_out>>
    /\ UNCHANGED <<vars_bt, vars_gate, vars_drv, vars_cuts, vars_op, vars_ec>>

NextVerify ==
    \/ CallVerifyCutFractionalMasses
    \/ AssertionEscapes
    \/ LoopEnds

SpecVerify == InitVerify /\ [][NextVerify]_vars

(***************************************************************************)
(* Claims about the loop of component_mass_fractions (SpecVerify).         *)
(***************************************************************************)
\* f_sat_i + f_arom_i = fmass_i for every cut of the pair
SumsToMass(fmass_i, split) ==
    \A i \in 1..Len(fmass_i) :
        /\ split[1][i] # NaN
        /\ split[2][i] # NaN
        /\ split[1][i] + split[2][i] = fmass_i[i]

AtOrAbove200(i) ==
    LET avg == M_w_avg(est_args.fmass_i[i], est_args.T_i[i],
                       est_args.entry[1][i], est_args.entry[2][i], est_args.env)
    IN  avg[2] # 0 /\ avg[1] >= MolWtLimit * avg[2]

Below200(i) ==
    LET avg == M_w_avg(est_args.fmass_i[i], est_args.T_i[i],
                       est_args.entry[1][i], est_args.entry[2][i], est_args.env)
    IN  avg[2] # 0 /\ avg[1] < MolWtLimit * avg[2]

\* a call has returned a pair for cuts that all have mass
CallReturned ==
    /\ est_args.calls >= 1
    /\ ~Raised(est_out)
    /\ \A i \in 1..MaxCuts : est_args.fmass_i[i] > 0

\* C25 as stated: every cut whose average molecular weight is >= 200
\* (exactly 200 included) gets the Saturates share fmass_i * r and the
\* Aromatics share fmass_i * (1 - r), r being the Saturates-to-total ratio of
\* the last cut whose average molecular weight is below 200, or 0.5 when
\* every cut is at or above 200; the cuts below 200 keep the split of the
\* Riazi correlation.
C25_AsStated ==
    CallReturned =>
        LET cuts == 1..MaxCuts
            fmass_i == est_args.fmass_i
            below == {i \in cuts : Below200(i)}
            r == IF below = {} THEN <<1, 2>>
                 ELSE <<est_out.val[1][MaxOf(below)], fmass_i[MaxOf(below)]>>
        IN  \A i \in cuts :
                /\ AtOrAbove200(i) =>
                       /\ est_out.val[1][i] = MulDiv(fmass_i[i], r[1], r[2])
                       /\ est_out.val[2][i] = fmass_i[i] - MulDiv(fmass_i[i], r[1], r[2])
                /\ Below200(i) =>
                       /\ est_out.val[1][i] =
                              MulDiv(fmass_i[i], est_args.env.sat_share, FracUnit)
                       /\ est_out.val[2][i] = fmass_i[i] - est_out.val[1][i]

(***************************************************************************)
(* Claims about the two lookups of density_at_temp (SpecDensity).          *)
(***************************************************************************)
\* the densities the lookup was given
LookedUpDensities == get_densities(record, est_args.weathering)

\* the temperature asked for lies strictly above or strictly below both
\* reference temperatures of the bounding pair r
OutsideBoth(temp, r) ==
    \/ temp > r[1].ref_temp_k /\ temp > r[2].ref_temp_k
    \/ temp < r[1].ref_temp_k /\ temp < r[2].ref_temp_k

\* C26 as stated: the expansion coefficient is the default (0.0009 per K if
\* the oil's API is above 30, else 0.0008 per K) exactly when the temperature
\* lies outside both bounding reference temperatures, and is otherwise derived
\* from the two bounding density points; the API of the test is the oil's API,
\* measured if present and otherwise derived from its density.
C26_AsStated ==
    (Called("_vol_expansion_coeff") /\ ~Raised(est_out) /\ ~Raised(get_api(record))) =>
        LET r == bounding_temperatures(LookedUpDensities, <<est_args.temp>>)[1]
        IN  est_out.val =
                IF OutsideBoth(est_args.temp, r)
                THEN IF get_api(record).val > 300
                     THEN <<9, 1000000>> ELSE <<8, 1000000>>
                ELSE est_vol_expansion_coeff(r[1].kg_m_3, r[1].ref_temp_k,
                                             r[2].kg_m_3, r[2].ref_temp_k)

\* C27 as stated: _get_reference_densities returns the density measurement of
\* the series whose reference temperature is closest to the temperature asked
\* for, with that measurement's reference temperature.
C27_AsStated ==
    (Called("_get_reference_densities") /\ ~Raised(est_out)) =>
        /\ \E i \in 1..Len(LookedUpDensities) : LookedUpDensities[i] = est_out.val
        /\ \A i \in 1..Len(LookedUpDensities) :
               Abs(est_out.val.ref_temp_k - est_args.temp)
                   <= Abs(LookedUpDensities[i].ref_temp_k - est_args.temp)

(***************************************************************************)
(* Claim about what the pre-estimation gate admits (SpecGates).            *)
(***************************************************************************)
\* reject_imported_record_if_requirements_not_met has returned
GateAccepted == gate_pc = "pre" /\ ~Raised(gate_out)

\* C28 as stated: every record accepted by the pre-estimation gate has a
\* culled density or an API, a culled kvis or dvis, and either no usable cut
\* or enough culled cuts to fit the linear curve: the raw counts of the gate
\* never admit a record whose culled collections are too small.
C28_AsStated ==
    GateAccepted =>
        /\ Len(culled_densities(imported_rec)) > 0 \/ imported_rec.api # None
        /\ \/ Len(culled_kvis(imported_rec)) > 0
           \/ Len(culled_measurement(imported_rec.dvis, "kg_ms")) > 0
        /\ \/ Len(culled_cuts(imported_rec)) = 0
           \/ ~Raised(curve_fit(
                  [i \in 1..Len(culled_cuts(imported_rec)) |->
                      culled_cuts(imported_rec)[i].vapor_temp_k],
                  [i \in 1..Len(culled_cuts(imported_rec)) |->
                      culled_cuts(imported_rec)[i].fraction]))

(***************************************************************************)
(* Claim about the density information of an oil built from a JSON payload *)
(* (SpecDensity): get_oil hands the record to                              *)
(* _estimate_missing_oil_props, whose first step is                        *)
(* _add_missing_density_info and whose later steps do not assign api.      *)
(***************************************************************************)
\* _add_missing_density_info has returned
DensityInfoAdded == Called("_add_missing_density_info") /\ ~Raised(est_out)

\* C29 as stated: after get_oil is given a JSON payload the record has at
\* least one density and a non-null api: without densities one is synthesized
\* from the API, and with densities but without API the record's api is set
\* to the API derived from the density at 15 C.
C29_AsStated ==
    DensityInfoAdded =>
        /\ Len(record.densities) >= 1
        /\ record.api # None
        /\ Len(est_args.record.densities) = 0 =>
               /\ Len(record.densities) = 1
               /\ <<record.densities[1].kg_m_3, record.densities[1].ref_temp_k>>
                      = est_density_from_api(est_args.record.api)
        /\ (Len(est_args.record.densities) > 0 /\ est_args.record.api = None) =>
               Return(record.api) = get_api(est_args.record)

(***************************************************************************)
(* Specification SpecRecursion: one call of density_at_temp, frame by      *)
(* frame.  est_args.stack is the call stack, the innermost frame last; a   *)
(* frame holds the function, its temperature and the calls it has yet to   *)
(* make.  est_args.trace lists the functions entered.  No frame catches an *)
(* exception, so a frame that raises takes the whole stack with it.  The   *)
(* specification follows the calls only: what density_at_temp returns and  *)
(* what it leaves in the record is the subject of SpecDensity.             *)
(***************************************************************************)
\* the stack the model follows a runaway recursion to
MaxDepth == 6

\* A plausible slip: density_at_temp asks pour_point() whatever the record holds.
consults_pour_point_always(rec) == TRUE

\* density_at_temp: the else branch of the test for min_temp, where
\* self.pour_point() is consulted
consults_pour_point(rec) ==
    ~(/\ rec.pour_point_min_k = None
      /\ rec.pour_point_max_k = None
      /\ rec.has_dvis
      /\ Len(rec.dvis) > 0)

\* the calls a function makes to the other two, in order
callees(fn, rec) ==
    LET frame(name, temp) == [fn |-> name, temp |-> temp]
        nr_dvis == non_redundant_dvis(rec)
    IN  CASE fn = "density_at_temp" ->
                 IF consults_pour_point(rec) THEN <<frame("pour_point", None)>> ELSE <<>>
          [] fn = "pour_point" ->
                 IF rec.pour_point_min_k # None \/ rec.pour_point_max_k # None THEN <<>>
                 ELSE <<frame("aggregate_kvis", None)>>
          [] fn = "aggregate_kvis" ->
                 \* self.density_at_temp(d.ref_temp_k) for d in non_redundant_dvis()
                 IF rec.has_dvis
                 THEN [i \in 1..Len(nr_dvis) |-> frame("density_at_temp", nr_dvis[i].ref_temp_k)]
                 ELSE <<>>

\* the frame of a call
entered(call, rec) ==
    [fn |-> call.fn, temp |-> call.temp, pending |-> callees(call.fn, rec)]

\* the function of the frame raises
frame_raises(frame, rec) ==
    CASE frame.fn = "density_at_temp" -> Raised(density_at_temp(rec, frame.temp, 0))
      [] frame.fn = "pour_point" -> Raised(pour_point(rec))
      [] frame.fn = "aggregate_kvis" -> Raised(aggregate_kvis(rec))

\* records with and without pour point, viscosities and densities: the dvis
\* attribute missing, empty, with one or two measurements, one without value
RecursionRecords ==
    {[api |-> api, densities |-> densities, kvis |-> kvis,
      dvis |-> dvis[2], has_dvis |-> dvis[1],
      pour_point_min_k |-> pp[1], pour_point_max_k |-> pp[2]] :
        api \in {None, 300},
        densities \in {<<>>, <<GateDensity>>},
        kvis \in {<<>>, <<GateKvis>>},
        dvis \in {<<FALSE, <<>>>>, <<TRUE, <<>>>>, <<TRUE, <<GateDvis>>>>,
                  <<TRUE, <<GateDvis, [kg_ms |-> 20000, ref_temp_k |-> 27315,
                                       weathering |-> None]>>>>,
                  <<TRUE, <<[kg_ms |-> None, ref_temp_k |-> T15C,
                             weathering |-> None]>>>>},
        pp \in PourPoints}

InitRecursion ==
    /\ record \in RecursionRecords
    /\ est_args = Pending
    /\ est_out = Pending
    /\ est_pc = "call"
    /\ IdleBound
    /\ IdleGate
    /\ IdleDrv
    /\ IdleCuts
    /\ IdleOp
    /\ IdleEc

\* density_at_temp(temperature) is entered
EnterDensityAtTemp ==
    /\ est_pc = "call"
    /\ \E temp \in DensityTemps :
          est_args' = [method |-> "density_at_temp", temp |-> temp,
                       stack |-> <<entered([fn |-> "density_at_temp", temp |-> temp],
                                           record)>>,
                       trace |-> <<"density_at_temp">>]
    /\ est_pc' = "running"
    /\ UNCHANGED <<record, est_out>>
    /\ UNCHANGED <<vars_bt, vars_gate, vars_drv, vars_cuts, vars_op, vars_ec>>

\* the innermost frame makes its next call
CallNext ==
    /\ est_pc = "running"
    /\ Len(est_args.stack) < MaxDepth
    /\ \E top \in {est_args.stack[Len(est_args.stack)]} :
          /\ top.pending # <<>>
          /\ est_args' =
                 [est_args EXCEPT
                     !.stack = Append([@ EXCEPT ![Len(@)].pending = Tail(top.pending)],
                                      entered(Head(top.pending), record)),
                     !.trace = Append(@, Head(top.pending).fn)]
    /\ UNCHANGED <<record, est_out, est_pc>>
    /\ UNCHANGED <<vars_bt, vars_gate, vars_drv, vars_cuts, vars_op, vars_ec>>

\* the innermost frame has made its calls and returns to its caller
ReturnToCaller ==
    /\ est_pc = "running"
    /\ Len(est_args.stack) > 1
    /\ est_args.stack[Len(est_args.stack)].pending = <<>>
    /\ ~frame_raises(est_args.stack[Len(est_args.stack)], record)
    /\ est_args' = [est_args EXCEPT !.stack = SubSeq(@, 1, Len(@) - 1)]
    /\ UNCHANGED <<record, est_out, est_pc>>
    /\ UNCHANGED <<vars_bt, vars_gate, vars_drv, vars_cuts, vars_op, vars_ec>>

\* the call of density_at_temp ends: its frame returns, or the innermost
\* frame raises and nothing catches the exception
LeaveDensityAtTemp ==
    /\ est_pc = "running"
    /\ est_args.stack[Len(est_args.stack)].pending = <<>>
    /\ \/ Len(est_args.stack) = 1
       \/ frame_raises(est_args.stack[Len(est_args.stack)], record)
    /\ est_args' = [est_args EXCEPT !.stack = <<>>]
    /\ est_pc' = "done"
    /\ UNCHANGED <<record, est_out>>
    /\ UNCHANGED <<vars_bt, vars_gate, vars_drv, vars_cuts, vars_op, vars_ec>>

NextRecursion ==
    \/ EnterDensityAtTemp
    \/ CallNext
    \/ ReturnToCaller
    \/ LeaveDensityAtTemp

\* every step is a step of the one thread that runs the call
SpecRecursion == InitRecursion /\ [][NextRecursion]_vars /\ WF_vars(NextRecursion)

(***************************************************************************)
(* Claim about the termination of density_at_temp (SpecRecursion).         *)
(***************************************************************************)
\* the frames of density_at_temp on the stack
DensityFrames ==
    {i \in 1..Len(est_args.stack) : est_args.stack[i].fn = "density_at_temp"}

\* the stack holds the one call of density_at_temp, and pour_point is on it
\* only for a record that reports a pour point or has no dvis
ChainIsShort ==
    est_pc = "running" =>
        /\ Cardinality(DensityFrames) <= 1
        /\ (\E i \in 1..Len(est_args.stack) : est_args.stack[i].fn = "pour_point") =>
               \/ record.pour_point_min_k # None
               \/ record.pour_point_max_k # None
               \/ Len(record.dvis) = 0

\* C30: density_at_temp terminates for every record: pour_point is consulted
\* from density_at_temp only when the record reports a pour point or has no
\* dvis, in both cases no further call of density_at_temp is made, and the
\* call ends, by a return or by an exception.
C30_Terminates == []ChainIsShort /\ <>(est_pc = "done")

\* density_at_temp has gone through pour_point and aggregate_kvis and has
\* returned a density, for a record without pour point and without dvis
C30_Witness ==
    /\ est_pc = "done"
    /\ est_args.trace = <<"density_at_temp", "pour_point", "aggregate_kvis">>
    /\ ~Raised(density_at_temp(record, est_args.temp, 0))
    /\ record.pour_point_min_k = None
    /\ record.pour_point_max_k = None
    /\ Len(record.dvis) = 0

====
